---- MODULE Spec2Model ----
(***************************************************************************)
(* Model of fb_marketplace_vehicle_dom_update.py: the per-record           *)
(* reconciliation loop (run_single_listing), the record loop of main, and  *)
(* the construction of the per-record configuration.                       *)
(*                                                                         *)
(* Strings are sequences of one-character strings, so that strip(),        *)
(* sorted() and suffix matching are computed and not assumed.              *)
(* Time is counted in ticks of 1.5 s, the unconditional wait that opens    *)
(* every iteration of the loop; the clock of a record starts at 0.         *)
(***************************************************************************)
EXTENDS Integers, Sequences, FiniteSets, TLC

VARIABLES
    listings,           \* main: the records to process (load_listings_data or [{}])
    files,              \* the files that exist below the project root
    arg_photo_path,     \* args.photo_path
    timeout_ticks,      \* args.timeout_ms, in ticks
    G,                  \* the module globals that apply_listing_globals rewrites
    idx,                \* main: 1-based index of the record of the for loop
    mpc,                \* main: position ("build", "call", "run", "returned", "exit", "crashed")
    config,             \* main: the ListingConfig of the current record, or NoConfig
    failed_count,       \* main: failed_count
    exit_code,          \* main: return value, -1 while running
    outcomes,           \* history: how each record ended
    now,                \* time.time(), relative to the start of the record
    deadline,           \* run_single_listing: deadline
    success,            \* run_single_listing locals, lines 1652-1661
    dom_success,
    photo_success,
    draft_clicked,
    leave_clicked,
    dom_stable_count,
    attempts,
    selects_ok,
    model_commit_ok,
    mileage_commit_ok,
    last,               \* history: what the latest iteration of the loop did
    submitted,          \* history: the asset was handed to the page for this record
    saved,              \* history: a click on "Simpan draf" was performed for this record
    pair,               \* two runs of main's record loop side by side (configuration only)
    probe               \* one commit function applied to one page: what it met and returned

mainVars == <<listings, files, arg_photo_path, timeout_ticks, G, idx, mpc, config,
              failed_count, exit_code, outcomes>>
runVars  == <<now, deadline, success, dom_success, photo_success, draft_clicked,
              leave_clicked, dom_stable_count, attempts, selects_ok,
              model_commit_ok, mileage_commit_ok, last, submitted, saved>>
vars     == <<mainVars, runVars, pair, probe>>

(***************************************************************************)
(* Bounds                                                                  *)
(***************************************************************************)
MaxListings  == 2      \* longest record list explored
MaxTimeout   == 6      \* per-record timeout of the single-record runs, in ticks
MainTimeout  == 2      \* per-record timeout of the multi-record runs, in ticks
MaxIterTicks == 2      \* longest duration of one iteration, in ticks
PollCount    == 1      \* polls that fit in the 10 s window of click_tinggalkan_halaman
MaxContainers == 2     \* most containers that carry the label of a text field
MaxPasses    == 3      \* passes of patch_dom applied to one page
MaxItems     == 3      \* longest list of a data file

(***************************************************************************)
(* Strings                                                                 *)
(***************************************************************************)
NoneV == <<"<None>">>           \* Python's None / a key that is absent

IsSpace(c) == c \in {" ", "\t", "\n"}

RECURSIVE LStrip(_)
LStrip(s) == IF s # <<>> /\ IsSpace(Head(s)) THEN LStrip(Tail(s)) ELSE s

RECURSIVE RStrip(_)
RStrip(s) == IF s # <<>> /\ IsSpace(s[Len(s)]) THEN RStrip(SubSeq(s, 1, Len(s) - 1)) ELSE s

\* str.strip()
Strip(s) == RStrip(LStrip(s))

\* str.endswith(suffix)
EndsWith(s, suffix) ==
    /\ Len(s) >= Len(suffix)
    /\ SubSeq(s, Len(s) - Len(suffix) + 1, Len(s)) = suffix

\* code-point order of the characters that occur in the modelled paths
CharRank(c) ==
    CASE c = " " -> 0 [] c = "." -> 1 [] c = "/" -> 2
      [] c = "a" -> 10 [] c = "b" -> 11 [] c = "c" -> 12 [] c = "d" -> 13
      [] c = "e" -> 14 [] c = "g" -> 15 [] c = "h" -> 16 [] c = "i" -> 17
      [] c = "j" -> 18 [] c = "n" -> 19 [] c = "p" -> 20 [] c = "w" -> 21
      [] OTHER -> 30

RECURSIVE StrLess(_, _)
StrLess(s, t) ==
    IF t = <<>> THEN FALSE
    ELSE IF s = <<>> THEN TRUE
    ELSE IF CharRank(Head(s)) < CharRank(Head(t)) THEN TRUE
    ELSE IF CharRank(Head(s)) > CharRank(Head(t)) THEN FALSE
    ELSE StrLess(Tail(s), Tail(t))

\* sorted(paths)[0] for a non-empty set of paths
FirstSorted(paths) == CHOOSE p \in paths : \A q \in paths : q = p \/ StrLess(p, q)

(***************************************************************************)
(* Module constants, lines 35-71                                           *)
(***************************************************************************)
TARGET_URL ==
    <<"h","t","t","p","s",":","/","/","w","w","w",".","f","a","c","e","b","o","o","k",
       ".","c","o","m","/","m","a","r","k","e","t","p","l","a","c","e","/","c","r",
       "e","a","t","e","/","v","e","h","i","c","l","e">>
SELLING_URL ==
    <<"h","t","t","p","s",":","/","/","w","w","w",".","f","a","c","e","b","o","o","k",
       ".","c","o","m","/","m","a","r","k","e","t","p","l","a","c","e","/","y","o",
       "u","/","s","e","l","l","i","n","g">>
TARGET_TEXT_0         == <<"M","o","b","i","l","/","T","r","u","k">>
TARGET_YEAR_TEXT_0    == <<"2","0","2","5">>
MAKE_INPUT_VALUE_0    == <<"A","v","a","n","z","a">>
TOYOTA_INPUT_VALUE_0  == <<"T","o","y","o","t","a">>
MODEL_INPUT_VALUE_0   == <<"A","v","a","n","z","a">>
PRICE_INPUT_VALUE_0   == <<"2","0","0","0","0","0">>
MILEAGE_INPUT_VALUE_0 == <<"1","2","0","0","0","0">>
DESCRIPTION_TEXT_0    == <<"n","e","g","o"," ","t","i","p","i","s"," ","k","m"," ","r","e","n","d","a","h">>
LOCATION_TEXT_0       == <<"B","e","k","a","s","i">>
PHOTO_GLOB_PATTERNS   == << <<".","j","p","g">>, <<".","j","p","e","g">>, <<".","p","n","g">>,
                            <<".","w","e","b","p">>, <<".","h","e","i","c">> >>

\* the globals as the module body leaves them
InitialGlobals ==
    [TARGET_TEXT |-> TARGET_TEXT_0, TARGET_YEAR_TEXT |-> TARGET_YEAR_TEXT_0,
     MAKE_INPUT_VALUE |-> MAKE_INPUT_VALUE_0, TOYOTA_INPUT_VALUE |-> TOYOTA_INPUT_VALUE_0,
     MODEL_INPUT_VALUE |-> MODEL_INPUT_VALUE_0, PRICE_INPUT_VALUE |-> PRICE_INPUT_VALUE_0,
     MILEAGE_INPUT_VALUE |-> MILEAGE_INPUT_VALUE_0, DESCRIPTION_TEXT |-> DESCRIPTION_TEXT_0,
     LOCATION_TEXT |-> LOCATION_TEXT_0]

(***************************************************************************)
(* Record configuration                                                    *)
(***************************************************************************)
\* dict.get(key): None for an absent key
DictGet(listing, key) == IF key \in DOMAIN listing THEN listing[key] ELSE NoneV

RECURSIVE _pick_listing_value(_, _, _)
_pick_listing_value(listing, keys, fallback) ==
    IF keys = <<>> THEN fallback
    ELSE LET value == DictGet(listing, Head(keys))
         IN  IF value # NoneV /\ Strip(value) # <<>>
             THEN Strip(value)
             ELSE _pick_listing_value(listing, Tail(keys), fallback)

\* project_root.glob(pattern): the files directly in the root with the extension
Glob(fs, ext) == {p \in fs : EndsWith(p, ext) /\ \A i \in 1..Len(p) : p[i] # "/"}

RECURSIVE DiscoverFrom(_, _)
DiscoverFrom(fs, patterns) ==
    IF patterns = <<>> THEN NoneV
    ELSE IF Glob(fs, Head(patterns)) # {} THEN FirstSorted(Glob(fs, Head(patterns)))
    ELSE DiscoverFrom(fs, Tail(patterns))

discover_project_photo(fs) == DiscoverFrom(fs, PHOTO_GLOB_PATTERNS)

\* the explicit path returned without asking whether it exists
resolve_photo_path_Unchecked(fs, photo_path_arg) ==
    IF Strip(photo_path_arg) # <<>> THEN photo_path_arg ELSE discover_project_photo(fs)

resolve_photo_path(fs, photo_path_arg) ==
    IF Strip(photo_path_arg) # <<>>
    THEN IF photo_path_arg \in fs THEN photo_path_arg ELSE discover_project_photo(fs)
    ELSE discover_project_photo(fs)

NoConfig == [none |-> TRUE]

\* build_listing_config without the test of line 1597
build_listing_config_NoAssetCheck(listing, g, fs, photo_arg) ==
    [target_url |-> _pick_listing_value(listing, <<"target_url">>, TARGET_URL),
     selling_url |-> _pick_listing_value(listing, <<"selling_url">>, SELLING_URL),
     photo_path |-> resolve_photo_path(fs, _pick_listing_value(listing, <<"photo_path">>, photo_arg)),
     vehicle_type |-> g.TARGET_TEXT, year |-> g.TARGET_YEAR_TEXT, make |-> g.TOYOTA_INPUT_VALUE,
     model |-> g.MODEL_INPUT_VALUE, price |-> g.PRICE_INPUT_VALUE,
     mileage |-> g.MILEAGE_INPUT_VALUE, description |-> g.DESCRIPTION_TEXT,
     location |-> g.LOCATION_TEXT]

build_listing_config(listing, g, fs, photo_arg) ==
    LET vehicle_type == _pick_listing_value(listing, <<"vehicle_type", "jenis_kendaraan">>, g.TARGET_TEXT)
        year         == _pick_listing_value(listing, <<"year", "tahun">>, g.TARGET_YEAR_TEXT)
        make         == _pick_listing_value(listing, <<"make", "merek", "merk", "brand">>, g.TOYOTA_INPUT_VALUE)
        model        == _pick_listing_value(listing, <<"model">>, g.MODEL_INPUT_VALUE)
        price        == _pick_listing_value(listing, <<"price", "harga">>, g.PRICE_INPUT_VALUE)
        mileage      == _pick_listing_value(listing, <<"mileage", "jarak_tempuh", "jarak">>, g.MILEAGE_INPUT_VALUE)
        description  == _pick_listing_value(listing, <<"description", "keterangan">>, g.DESCRIPTION_TEXT)
        location     == _pick_listing_value(listing, <<"location", "lokasi">>, g.LOCATION_TEXT)
        target_url   == _pick_listing_value(listing, <<"target_url">>, TARGET_URL)
        selling_url  == _pick_listing_value(listing, <<"selling_url">>, SELLING_URL)
        listing_photo_arg == _pick_listing_value(listing, <<"photo_path">>, photo_arg)
        photo_path   == resolve_photo_path(fs, listing_photo_arg)
    IN  IF photo_path = NoneV THEN NoConfig
        ELSE [target_url |-> target_url, selling_url |-> selling_url, photo_path |-> photo_path,
              vehicle_type |-> vehicle_type, year |-> year, make |-> make, model |-> model,
              price |-> price, mileage |-> mileage, description |-> description,
              location |-> location]

apply_listing_globals(cfg) ==
    [TARGET_TEXT |-> cfg.vehicle_type, TARGET_YEAR_TEXT |-> cfg.year,
     TOYOTA_INPUT_VALUE |-> cfg.make, MODEL_INPUT_VALUE |-> cfg.model,
     PRICE_INPUT_VALUE |-> cfg.price, MILEAGE_INPUT_VALUE |-> cfg.mileage,
     DESCRIPTION_TEXT |-> cfg.description, LOCATION_TEXT |-> cfg.location,
     MAKE_INPUT_VALUE |-> cfg.model]

\* the field values a record is run with: the ListingConfig fields
FieldValues(cfg) ==
    [vehicle_type |-> cfg.vehicle_type, year |-> cfg.year, make |-> cfg.make,
     model |-> cfg.model, price |-> cfg.price, mileage |-> cfg.mileage,
     description |-> cfg.description, location |-> cfg.location]


(***************************************************************************)
(* Inputs explored                                                         *)
(***************************************************************************)
P_a_png  == <<"a",".","p","n","g">>
P_b_jpg  == <<"b",".","j","p","g">>
P_c_jpg  == <<"c",".","j","p","g">>
P_d_webp == <<"d","/","e",".","w","e","b","p">>      \* exists, but not directly in the root
P_gone   == <<"g",".","p","n","g">>                  \* named by a record, never exists

L_empty   == << >>                                   \* {}
L_year    == [year |-> <<"2","0","2","0">>]
L_aliases == [tahun |-> <<" ","2","0","1","9"," ">>, model |-> <<"Y","a","r","i","s">>,
              year |-> <<" ">>, photo_path |-> P_d_webp]
L_nophoto == [merek |-> <<"K","i","a">>, photo_path |-> P_gone]

ListingPool == {L_empty, L_year, L_aliases, L_nophoto}
FsPool      == { {}, {P_d_webp}, {P_a_png, P_c_jpg, P_b_jpg, P_d_webp} }
\* the records and files of the runs of main: L_aliases names an asset that exists,
\* L_empty has none (no image lies directly in the root)
MainListings == {L_empty, L_aliases}
MainFiles    == {P_d_webp}

SeqsUpTo(S, n) == UNION {[1..k -> S] : k \in 1..n}

(***************************************************************************)
(* upload_photo and click_tinggalkan_halaman                               *)
(***************************************************************************)
\* what upload_photo meets on the page: the control it finds (the file input,
\* else the "Tambahkan Foto" button, else nothing), whether handing over the
\* file works or raises, and whether the "Hapus foto dari tawaran" affordance
\* appears within 12 s
UploadEnvs ==
    {[control |-> "none", submit |-> "na", affordance |-> "na"]}
    \cup {[control |-> c, submit |-> "raise", affordance |-> "na"] : c \in {"input", "button"}}
    \cup {[control |-> c, submit |-> "ok", affordance |-> a] :
              c \in {"input", "button"}, a \in {"shown", "timeout"}}

NoUpload == [control |-> "na", submit |-> "na", affordance |-> "na"]

\* lines 204-222: the result, and whether set_input_files / set_files was done
upload_photo(e) ==
    IF e.control = "none" THEN [ok |-> FALSE, submitted |-> FALSE]
    ELSE IF e.submit = "raise" THEN [ok |-> FALSE, submitted |-> FALSE]
    ELSE [ok |-> e.affordance = "shown", submitted |-> TRUE]

\* what click_save_draft meets on the page: "none" when none of its three
\* locators matches, "clicked" when the click of the first match returns,
\* "blocked" when that click raises before the pointer event is sent (the
\* element is not actionable within 3 s), "clicked_raised" when it raises after
\* the pointer event was sent (the wait that follows the click times out, or the
\* page goes away under it)
SaveEnvs == {"none", "clicked", "blocked", "clicked_raised"}

NoSave == "na"

\* click_save_draft that reports every click it performed
click_save_draft_Reporting(e) ==
    [ok |-> e \in {"clicked", "clicked_raised"}, clicked |-> e \in {"clicked", "clicked_raised"}]

\* lines 225-250: the result, and whether a click was performed
click_save_draft(e) ==
    [ok |-> e = "clicked", clicked |-> e \in {"clicked", "clicked_raised"}]

\* what one poll of click_tinggalkan_halaman meets (lines 286-330):
\*   "absent"    nothing with the text "Tinggalkan Halaman" is visible
\*   "stuck"     the prompt is visible but no strategy registers a click
\*   "selector"  click_first_actionable clicks a match of one of the selectors
\*   "js"        only the JS fallback finds a target and dispatches the click
\*   "*_raise"   a page call of the poll outside click_first_actionable's try
\*               raises (locator.count, page.evaluate, wait_for_timeout)
PollObs == {"absent", "stuck", "selector", "js", "absent_raise", "stuck_raise"}

PollEnds == {"selector", "js", "absent_raise", "stuck_raise"}

\* what leave_confirmation_present meets after the window (lines 255-275);
\* "*_raise": its page.evaluate raises
EndObs == {"absent", "visible", "absent_raise", "visible_raise"}

\* a poll window: the polls made, and the final probe when the window expired
LeaveWindows ==
    {w \in [polls : SeqsUpTo(PollObs, PollCount), end : EndObs \cup {"na"}] :
        /\ \A i \in 1..(Len(w.polls) - 1) : w.polls[i] \notin PollEnds
        /\ IF w.polls[Len(w.polls)] \in PollEnds
           THEN w.end = "na"
           ELSE Len(w.polls) = PollCount /\ w.end # "na"}

NoWindow == [polls |-> << >>, end |-> "na"]

\* what a window showed, for the history: whether the prompt was visible at
\* some poll or at the final probe, and whether a page call raised
Seen(w) ==
    \/ \E i \in 1..Len(w.polls) : w.polls[i] \in {"stuck", "selector", "js", "stuck_raise"}
    \/ w.end \in {"visible", "visible_raise"}

Raised(w) ==
    \/ \E i \in 1..Len(w.polls) : w.polls[i] \in {"absent_raise", "stuck_raise"}
    \/ w.end \in {"absent_raise", "visible_raise"}

\* the prompt was visible at every poll and at the final probe, and no strategy
\* registered a click
Stuck(w) ==
    /\ \A i \in 1..Len(w.polls) : w.polls[i] = "stuck"
    /\ w.end \in {"visible", "visible_raise"}

NoLeave == [called |-> FALSE, seen |-> FALSE, raised |-> FALSE, stuck |-> FALSE]

\* click_tinggalkan_halaman without the branch of lines 333-335
click_tinggalkan_halaman_NoAbsence(w) ==
    LET lastPoll == w.polls[Len(w.polls)]
    IN  lastPoll \in {"selector", "js"}

\* lines 253-339
click_tinggalkan_halaman(w) ==
    LET lastPoll == w.polls[Len(w.polls)]
        leave_confirmation_present == w.end = "visible"
    IN  IF lastPoll \in {"selector", "js"} THEN TRUE
        ELSE IF lastPoll \in {"absent_raise", "stuck_raise"} THEN FALSE
        ELSE ~leave_confirmation_present

(***************************************************************************)
(* run_single_listing: the decisions of one iteration                      *)
(***************************************************************************)
\* the loop test with the comparison made inclusive
LoopCond_Inclusive(t, dl) == t <= dl

\* line 1663: while time.time() < deadline
LoopCond(t, dl) == t < dl

\* the counter update without the reset of the else branch
NextStable_NoReset(pass_ok, count) == IF pass_ok THEN count + 1 ELSE count

\* lines 1673-1676
NextStable(pass_ok, count) == IF pass_ok THEN count + 1 ELSE 0

\* line 1677
DiagGuard(pass_ok, n) == ~pass_ok /\ n % 6 = 0

\* the guard of the confirmations without the stability test
EnforceGuard_Always(count) == TRUE

\* line 1687
EnforceGuard(count) == count >= 2

\* the save guard without the stability test
SaveGuard_NoStable(count, photo, sel, mod, mil, draft) ==
    photo /\ sel /\ mod /\ mil /\ ~draft

\* line 1693
SaveGuard(count, photo, sel, mod, mil, draft) ==
    count >= 2 /\ photo /\ sel /\ mod /\ mil /\ ~draft

\* the guard of the navigation step without the test of draft_clicked
LeaveGuard_NoDraft(draft, leave) == ~leave

\* the guard of the navigation step without the test of leave_clicked
LeaveGuard_Redo(draft, leave) == draft

\* line 1695
LeaveGuard(draft, leave) == draft /\ ~leave

\* the success conjunction without its last conjunct
SuccessExpr_NoLeave(dom, photo, sel, mod, mil, draft, leave) ==
    dom /\ photo /\ sel /\ mod /\ mil /\ draft

\* lines 1697-1705
SuccessExpr(dom, photo, sel, mod, mil, draft, leave) ==
    dom /\ photo /\ sel /\ mod /\ mil /\ draft /\ leave

\* the calls of one iteration, in program order
Stage == [none |-> 0, wait |-> 1, upload |-> 2, goto |-> 3, patch_dom |-> 4, diag |-> 5,
          selects |-> 6, model |-> 7, mileage |-> 8, save |-> 9, leave |-> 10]

\* the calls of the loop body that can raise: upload_photo, click_save_draft and
\* click_tinggalkan_halaman catch every exception themselves
RaisePoints == {"none", "wait", "goto", "patch_dom", "diag", "selects", "model", "mileage"}

\* the calls whose execution the history records: the asset upload, the commit
\* confirmations and the irreversible steps
Observed == {"upload", "selects", "model", "mileage", "save", "leave"}

NoIteration == [pass |-> "none", exc |-> "none", calls |-> {}, submit |-> "no", save |-> "no",
                leave |-> NoLeave]

(***************************************************************************)
(* Initial states                                                          *)
(***************************************************************************)
RunIdle ==
    /\ now = 0 /\ deadline = 0
    /\ success = FALSE /\ dom_success = FALSE /\ photo_success = FALSE
    /\ draft_clicked = FALSE /\ leave_clicked = FALSE
    /\ dom_stable_count = 0 /\ attempts = 0
    /\ selects_ok = FALSE /\ model_commit_ok = FALSE /\ mileage_commit_ok = FALSE
    /\ last = NoIteration
    /\ submitted = FALSE
    /\ saved = FALSE

PairIdle == << >>

ProbeIdle == << >>

\* main, lines 1728-1754: the records are loaded, no record has been started
MainInit(lists, timeouts) ==
    /\ listings \in lists
    /\ files = MainFiles
    /\ arg_photo_path = << >>
    /\ timeout_ticks \in timeouts
    /\ G = InitialGlobals
    /\ idx = 1
    /\ mpc = "build"
    /\ config = NoConfig
    /\ failed_count = 0
    /\ exit_code = -1
    /\ outcomes = [i \in 1..Len(listings) |-> "pending"]
    /\ RunIdle
    /\ pair = PairIdle
    /\ probe = ProbeIdle

\* a run of main over one record
Init == MainInit([1..1 -> MainListings], {0, MaxTimeout})

\* a run of main over several records
InitMany == MainInit(SeqsUpTo(MainListings, MaxListings), {0, MainTimeout})

(***************************************************************************)
(* main and run_single_listing                                             *)
(***************************************************************************)
\* main, lines 1756-1770: build the configuration of record idx; without an
\* asset the record fails at once, otherwise the globals are rewritten
BuildConfig ==
    /\ mpc = "build"
    /\ idx <= Len(listings)
    /\ LET cfg == build_listing_config(listings[idx], G, files, arg_photo_path)
       IN  IF cfg = NoConfig
           THEN /\ failed_count' = failed_count + 1
                /\ outcomes' = [outcomes EXCEPT ![idx] = "failed_asset"]
                /\ idx' = idx + 1
                /\ UNCHANGED <<G, config, mpc>>
           ELSE /\ G' = apply_listing_globals(cfg)
                /\ config' = cfg
                /\ mpc' = "call"
                /\ UNCHANGED <<failed_count, outcomes, idx>>
    /\ UNCHANGED <<listings, files, arg_photo_path, timeout_ticks, exit_code, runVars, pair, probe>>

\* run_single_listing, lines 1636-1661: the first navigation and the readiness
\* probe are outside the try block; then the deadline and the locals are set
StartListing ==
    /\ mpc = "call"
    /\ \E nav \in {"ok", "raise"} :
         IF nav = "raise"
         THEN /\ mpc' = "crashed"
              /\ outcomes' = [outcomes EXCEPT ![idx] = "raised"]
              /\ UNCHANGED runVars
         ELSE /\ mpc' = "run"
              /\ now' = 0
              /\ deadline' = timeout_ticks
              /\ success' = FALSE /\ dom_success' = FALSE /\ photo_success' = FALSE
              /\ draft_clicked' = FALSE /\ leave_clicked' = FALSE
              /\ dom_stable_count' = 0 /\ attempts' = 0
              /\ selects_ok' = FALSE /\ model_commit_ok' = FALSE /\ mileage_commit_ok' = FALSE
              /\ last' = NoIteration
              /\ submitted' = FALSE
              /\ saved' = FALSE
              /\ UNCHANGED outcomes
    /\ UNCHANGED <<listings, files, arg_photo_path, timeout_ticks, G, idx, config,
                   failed_count, exit_code, pair, probe>>

\* run_single_listing, lines 1663-1711: one iteration of the while loop.
\* r is the call that raises, among the calls the iteration makes, and d the
\* time the iteration takes. p, s, m, k are the results of patch_dom and the
\* three enforce_* calls; ue, se and lw are what upload_photo, click_save_draft
\* and click_tinggalkan_halaman meet on the page; each is drawn only where the
\* call is made and returns. on_form is the test on page.url of line 1669: a
\* page.goto that returns changes nothing here, so on_form is false only where
\* the navigation raises.
Iteration ==
    /\ mpc = "run"
    /\ ~success
    /\ LoopCond(now, deadline)
    /\ \E r \in RaisePoints, d \in 1..MaxIterTicks :
       LET exc       == r # "none"
           Done(c)   == ~exc \/ Stage[c] < Stage[r]
           a1        == attempts + 1
       IN
       \E ue \in (IF ~photo_success /\ Done("upload") THEN UploadEnvs ELSE {NoUpload}),
          on_form \in (IF r = "goto" THEN {FALSE} ELSE {TRUE}),
          p \in (IF Done("patch_dom") THEN BOOLEAN ELSE {FALSE}) :
       LET up   == upload_photo(ue)
           ph1  == IF ~photo_success /\ Done("upload") THEN up.ok ELSE photo_success
           sub  == ~photo_success /\ Done("upload") /\ up.submitted
           cnt1 == NextStable(p, dom_stable_count)
           enf  == EnforceGuard(cnt1)
       IN
       \E s \in (IF enf /\ Done("selects") THEN BOOLEAN ELSE {selects_ok}),
          m \in (IF enf /\ Done("model") THEN BOOLEAN ELSE {model_commit_ok}),
          k \in (IF enf /\ Done("mileage") THEN BOOLEAN ELSE {mileage_commit_ok}) :
       LET sav == SaveGuard(cnt1, ph1, s, m, k, draft_clicked)
       IN
       \E se \in (IF sav /\ ~exc THEN SaveEnvs ELSE {NoSave}) :
       LET sr  == click_save_draft(se)
           sv  == IF sav /\ ~exc THEN sr.ok ELSE draft_clicked
           clk == sav /\ ~exc /\ sr.clicked
           lea == LeaveGuard(sv, leave_clicked)
       IN
       \E lw \in (IF lea /\ ~exc THEN LeaveWindows ELSE {NoWindow}) :
       LET lv == IF lea /\ ~exc THEN click_tinggalkan_halaman(lw) ELSE leave_clicked
           wanted == [none |-> TRUE, wait |-> TRUE, upload |-> ~photo_success,
                      goto |-> ~on_form, patch_dom |-> TRUE, diag |-> DiagGuard(p, a1),
                      selects |-> enf, model |-> enf, mileage |-> enf,
                      save |-> sav, leave |-> lea]
           Called(c) == c # "none" /\ wanted[c] /\ (~exc \/ Stage[c] <= Stage[r])
       IN  /\ wanted[r]
           /\ attempts' = a1
           /\ now' = now + d
           /\ photo_success' = ph1
           /\ submitted' = (submitted \/ sub)
           /\ saved' = (saved \/ clk)
           /\ dom_success' = IF Done("patch_dom") THEN p ELSE dom_success
           /\ dom_stable_count' = IF Done("patch_dom") THEN cnt1 ELSE dom_stable_count
           /\ selects_ok' = s
           /\ model_commit_ok' = m
           /\ mileage_commit_ok' = k
           /\ draft_clicked' = sv
           /\ leave_clicked' = lv
           /\ success' = IF ~exc THEN SuccessExpr(p, ph1, s, m, k, sv, lv) ELSE success
           /\ last' = [pass |-> IF Done("patch_dom") THEN (IF p THEN "ok" ELSE "fail")
                                ELSE IF r = "patch_dom" THEN "raised" ELSE "none",
                       exc |-> r,
                       calls |-> {c \in Observed : Called(c)},
                       submit |-> IF ~sub THEN "no" ELSE IF submitted THEN "again" ELSE "first",
                       save |-> IF ~clk THEN "no" ELSE IF saved THEN "again" ELSE "first",
                       leave |-> IF Called("leave")
                                 THEN [called |-> TRUE, seen |-> Seen(lw), raised |-> Raised(lw),
                                       stuck |-> Stuck(lw)]
                                 ELSE NoLeave]
    /\ UNCHANGED <<mainVars, deadline, pair, probe>>

\* run_single_listing, lines 1713-1725: the loop has ended, by break or by the
\* deadline; the record is reported
ReturnListing ==
    /\ mpc = "run"
    /\ success \/ ~LoopCond(now, deadline)
    /\ mpc' = "returned"
    /\ outcomes' = [outcomes EXCEPT ![idx] = IF success THEN "succeeded" ELSE "failed_deadline"]
    /\ UNCHANGED <<listings, files, arg_photo_path, timeout_ticks, G, idx, config,
                   failed_count, exit_code, runVars, pair, probe>>

\* main, lines 1771-1779: count a failed record, or open the selling page
AfterListing ==
    /\ mpc = "returned"
    /\ IF ~success
       THEN /\ failed_count' = failed_count + 1
            /\ idx' = idx + 1
            /\ mpc' = "build"
            /\ UNCHANGED outcomes
       ELSE \E sell \in {"ok", "raise"} :
              IF sell = "raise"
              THEN /\ mpc' = "crashed"
                   /\ UNCHANGED <<failed_count, idx, outcomes>>
              ELSE /\ idx' = idx + 1
                   /\ mpc' = "build"
                   /\ UNCHANGED <<failed_count, outcomes>>
    /\ UNCHANGED <<listings, files, arg_photo_path, timeout_ticks, G, config,
                   exit_code, runVars, pair, probe>>

\* main, lines 1781-1789: the for loop is exhausted
MainEnd ==
    /\ mpc = "build"
    /\ idx > Len(listings)
    /\ IF failed_count > 0
       THEN /\ exit_code' = 1
            /\ mpc' = "exit"
       ELSE \E fin \in {"ok", "raise"} :
              IF fin = "raise"
              THEN mpc' = "crashed" /\ UNCHANGED exit_code
              ELSE mpc' = "exit" /\ exit_code' = 0
    /\ UNCHANGED <<listings, files, arg_photo_path, timeout_ticks, G, idx, config,
                   failed_count, outcomes, runVars, pair, probe>>

Next == BuildConfig \/ StartListing \/ Iteration \/ ReturnListing \/ AfterListing \/ MainEnd

Spec == Init /\ [][Next]_vars

SpecMany == InitMany /\ [][Next]_vars

\* the program is one sequential thread and every page operation has a timeout:
\* a step that can be taken is taken
FairSpec == Init /\ [][Next]_vars /\ WF_vars(Next)

(***************************************************************************)
(* Two runs of main's record loop, side by side                            *)
(***************************************************************************)
\* the two record lists have the same length and the same last record
PairInit ==
    /\ \E n \in 2..MaxListings :
       \E a, b \in [1..n -> ListingPool] :
         /\ a[n] = b[n]
         /\ pair = [A |-> a, B |-> b, gA |-> InitialGlobals, gB |-> InitialGlobals,
                    i |-> 1, usedA |-> << >>, usedB |-> << >>]
    /\ files \in FsPool
    /\ arg_photo_path \in {<< >>, P_a_png}
    /\ listings = << >>
    /\ timeout_ticks = 0
    /\ G = InitialGlobals
    /\ idx = 1
    /\ mpc = "pair"
    /\ config = NoConfig
    /\ failed_count = 0
    /\ exit_code = -1
    /\ outcomes = << >>
    /\ RunIdle
    /\ probe = ProbeIdle

\* main, lines 1756-1770, in both runs: the configuration of record i is built
\* from the globals of the run and, when an asset resolves, written to them
PairStep ==
    /\ mpc = "pair"
    /\ pair.i <= Len(pair.A)
    /\ LET cfgA == build_listing_config(pair.A[pair.i], pair.gA, files, arg_photo_path)
           cfgB == build_listing_config(pair.B[pair.i], pair.gB, files, arg_photo_path)
       IN  pair' = [pair EXCEPT
                      !.gA = IF cfgA = NoConfig THEN @ ELSE apply_listing_globals(cfgA),
                      !.gB = IF cfgB = NoConfig THEN @ ELSE apply_listing_globals(cfgB),
                      !.usedA = Append(@, IF cfgA = NoConfig THEN NoConfig ELSE FieldValues(cfgA)),
                      !.usedB = Append(@, IF cfgB = NoConfig THEN NoConfig ELSE FieldValues(cfgB)),
                      !.i = @ + 1]
    /\ UNCHANGED <<mainVars, runVars, probe>>

SpecPair == PairInit /\ [][PairStep]_vars

(***************************************************************************)
(* The commit functions, each applied to one page                          *)
(***************************************************************************)
\* the main program at rest while one function is examined
FnIdle ==
    /\ listings = << >> /\ files = {} /\ arg_photo_path = << >>
    /\ timeout_ticks = 0 /\ G = InitialGlobals /\ idx = 1 /\ mpc = "fn"
    /\ config = NoConfig /\ failed_count = 0 /\ exit_code = -1 /\ outcomes = << >>
    /\ RunIdle
    /\ pair = PairIdle

UpperLetters == <<"A","B","C","D","E","F","G","H","I","J","K","L","M",
                  "N","O","P","Q","R","S","T","U","V","W","X","Y","Z">>
LowerLetters == <<"a","b","c","d","e","f","g","h","i","j","k","l","m",
                  "n","o","p","q","r","s","t","u","v","w","x","y","z">>

LowerChar(c) ==
    IF \E i \in DOMAIN UpperLetters : UpperLetters[i] = c
    THEN LowerLetters[CHOOSE i \in DOMAIN UpperLetters : UpperLetters[i] = c]
    ELSE c

UpperChar(c) ==
    IF \E i \in DOMAIN LowerLetters : LowerLetters[i] = c
    THEN UpperLetters[CHOOSE i \in DOMAIN LowerLetters : LowerLetters[i] = c]
    ELSE c

\* str.lower(), str.upper()
Lower(s) == [i \in 1..Len(s) |-> LowerChar(s[i])]
Upper(s) == [i \in 1..Len(s) |-> UpperChar(s[i])]

\* sub in s
Contains(s, sub) ==
    \E i \in 1..(Len(s) - Len(sub) + 1) : SubSeq(s, i, i + Len(sub) - 1) = sub

Nbsp == "<nbsp>"                 \* the character U+00A0

\* .replace(/\u00a0/g, '')
RemoveNbsp(s) == SelectSeq(s, LAMBDA c : c # Nbsp)

\* lines 342-366. combo is the combobox of the label: whether one of its spans
\* is exactly the label, the text of its value span (NoneV: no value span) and
\* the value of its text input (NoneV: no input); read = "raise": page.evaluate
\* raises
get_combobox_display_value(combo, read) ==
    IF read = "raise" THEN << >>
    ELSE IF ~combo.label_exact THEN << >>
    ELSE IF combo.span # NoneV THEN Strip(RemoveNbsp(combo.span))
    ELSE IF combo.input # NoneV THEN Strip(RemoveNbsp(combo.input))
    ELSE << >>

\* what select_combobox_option meets for the option text t:
\*   present      combo.count() > 0
\*   open         combo.click: "ok", "forced" (second try), "fail", or "raise"
\*                (an unguarded call of lines 373-386 raises)
\*   label_exact, span, input   the combobox before the call
\*   typing       editable.fill works ("fill"), only type works ("type"), or
\*                the block of lines 388-398 raises and is skipped
\*   option       text of the first element the option patterns could match
\*                (NoneV: the listbox is empty)
\*   click        the trial click and the click of that element succeed
\*   after        what the host shows as the value after the click (NoneV: the
\*                value is left as it was)
\*   read         page.evaluate of get_combobox_display_value returns or raises
BaseEnv(t) ==
    [present |-> TRUE, open |-> "ok", label_exact |-> TRUE, span |-> NoneV, input |-> << >>,
     typing |-> "fill", option |-> t, click |-> TRUE, after |-> t, read |-> "ok"]

\* texts the host can show after a click for the option text t: t itself, t in
\* capitals, t inside a longer text, a numeric id
TextsFor(t) == {t, Upper(t), t \o <<" ", "G", "T">>, <<"1", "2">>}

\* with or without a value span, with or without an input that takes the
\* typing, and every way the option click can go
KeyEnvs(t) ==
    {[BaseEnv(t) EXCEPT !.span = sp, !.input = it[1], !.typing = it[2],
                        !.option = oc[1], !.click = oc[2], !.after = oc[3]] :
        sp \in {NoneV, <<"1", "2">>},
        it \in {<<NoneV, "raise">>, <<<< >>, "fill">>, <<<< >>, "raise">>},
        oc \in {<<NoneV, FALSE, NoneV>>, <<t, FALSE, NoneV>>}
               \cup {<<o, TRUE, a>> : o \in {t, Upper(t)}, a \in {NoneV} \cup TextsFor(t)}}

\* the other conditions, one at a time
VariantEnvs(t) ==
    {[BaseEnv(t) EXCEPT !.present = FALSE],
     [BaseEnv(t) EXCEPT !.open = "forced"],
     [BaseEnv(t) EXCEPT !.open = "fail"],
     [BaseEnv(t) EXCEPT !.open = "raise"],
     [BaseEnv(t) EXCEPT !.label_exact = FALSE],
     [BaseEnv(t) EXCEPT !.read = "raise"],
     [BaseEnv(t) EXCEPT !.typing = "type"],
     [BaseEnv(t) EXCEPT !.after = <<Nbsp>> \o t \o <<" ">>],
     [BaseEnv(t) EXCEPT !.option = <<"1", "2">>],
     [BaseEnv(t) EXCEPT !.option = t \o <<" ", "G", "T">>, !.after = t \o <<" ", "G", "T">>],
     [BaseEnv(t) EXCEPT !.after = << >>]}

ComboEnvs(t) == KeyEnvs(t) \cup VariantEnvs(t)

NoOut == [ok |-> FALSE, raised |-> FALSE, clicked |-> FALSE, typed |-> FALSE,
          final_value |-> << >>, shown |-> << >>]

\* select_combobox_option with the test of line 423 removed
select_combobox_option_TypedCounts(e, option_text) ==
    LET typed  == e.input # NoneV /\ e.typing # "raise"
        input1 == IF typed THEN option_text ELSE e.input
        final_value == get_combobox_display_value(
                           [label_exact |-> e.label_exact, span |-> e.span, input |-> input1], e.read)
    IN  [ok |-> e.present /\ e.open \in {"ok", "forced"}
                /\ (final_value = option_text \/ Contains(Lower(final_value), Lower(option_text))),
         raised |-> FALSE, clicked |-> FALSE, typed |-> typed,
         final_value |-> final_value, shown |-> final_value]

\* lines 369-429: the result, whether the call raised, whether an option element
\* was clicked, whether the option text was typed into the input, the value
\* read back, and what the control shows when the call ends
select_combobox_option(e, option_text) ==
    LET typed   == e.input # NoneV /\ e.typing # "raise"
        input1  == IF typed THEN option_text ELSE e.input
        \* lines 400-406: one of the five patterns matches the element
        found   == e.option # NoneV /\ Contains(Lower(e.option), Lower(option_text))
        clicked == found /\ e.click
        changed == clicked /\ e.after # NoneV
        combo2  == [label_exact |-> e.label_exact,
                    span  |-> IF changed /\ e.span # NoneV THEN e.after ELSE e.span,
                    input |-> IF changed /\ e.span = NoneV /\ e.input # NoneV
                              THEN e.after ELSE input1]
        final_value == get_combobox_display_value(combo2, e.read)
        shown   == get_combobox_display_value(combo2, "ok")
    IN  IF ~e.present THEN [NoOut EXCEPT !.ok = TRUE]
        ELSE IF e.open = "raise" THEN [NoOut EXCEPT !.raised = TRUE]
        ELSE IF e.open = "fail" THEN NoOut
        ELSE IF ~clicked
        THEN [NoOut EXCEPT !.typed = typed, !.shown = shown]
        ELSE [ok |-> final_value = option_text
                     \/ Contains(Lower(final_value), Lower(option_text)),
              raised |-> FALSE, clicked |-> TRUE, typed |-> typed,
              final_value |-> final_value, shown |-> shown]

\* ListingConfig.select_fields, lines 1568-1574, of the default configuration
select_fields ==
    <<[label |-> "Jenis kendaraan", option |-> TARGET_TEXT_0],
      [label |-> "Tahun", option |-> TARGET_YEAR_TEXT_0],
      [label |-> "Merek", option |-> TOYOTA_INPUT_VALUE_0]>>

NoComboEnv == [present |-> FALSE]

SelectInit ==
    /\ FnIdle
    /\ probe = [fn |-> "enforce_select_fields", i |-> 1, ok |-> TRUE, done |-> FALSE,
                option_text |-> << >>, env |-> NoComboEnv, out |-> NoOut]

\* enforce_select_fields, lines 434-438: one pass of the for loop, with the call
\* of select_combobox_option; an exception of the call leaves the function
SelectField ==
    /\ probe.fn = "enforce_select_fields"
    /\ ~probe.done
    /\ probe.i <= Len(select_fields)
    /\ LET option_text == select_fields[probe.i].option
       IN  \E e \in ComboEnvs(option_text) :
           LET field_ok == select_combobox_option(e, option_text)
           IN  probe' = [probe EXCEPT !.i = @ + 1,
                                      !.ok = IF field_ok.raised THEN FALSE ELSE @ /\ field_ok.ok,
                                      !.done = field_ok.raised,
                                      !.option_text = option_text,
                                      !.env = e,
                                      !.out = field_ok]
    /\ UNCHANGED <<mainVars, runVars, pair>>

\* enforce_select_fields, line 439
SelectReturn ==
    /\ probe.fn = "enforce_select_fields"
    /\ ~probe.done
    /\ probe.i > Len(select_fields)
    /\ probe' = [probe EXCEPT !.done = TRUE]
    /\ UNCHANGED <<mainVars, runVars, pair>>

SpecSelect == SelectInit /\ [][SelectField \/ SelectReturn]_vars

\* re.sub(r"\s+", " ", v)
RECURSIVE CollapseSpaces(_)
CollapseSpaces(s) ==
    IF s = << >> THEN << >>
    ELSE IF IsSpace(Head(s))
    THEN <<" ">> \o CollapseSpaces(LStrip(s))
    ELSE <<Head(s)>> \o CollapseSpaces(Tail(s))

\* enforce_model_input_commit.norm, lines 455-456
norm(v) == Lower(Strip(CollapseSpaces(v)))

Digits == {"0", "1", "2", "3", "4", "5", "6", "7", "8", "9"}

\* str.isdigit()
isdigit(s) == s # << >> /\ \A i \in 1..Len(s) : s[i] \in Digits

\* the model values examined: the default, and a model whose name is a number
ModelValues == {MODEL_INPUT_VALUE_0, <<"3", "2", "3">>}

\* what one container with the label holds for enforce_model_input_commit:
\*   has_input   a text input is found in it (lines 491-495)
\*   exc         "first": the typing of lines 499-534 raises; "retype": the
\*               fallback of lines 545-566 raises; "none"
\*   current, visible     input_value() and read_visible_model_value() after
\*                        the typing (the host may have replaced the text by
\*                        the numeric id of a suggestion, or dropped it)
\*   current2, visible2   the same after the retyping of the fallback
ContainerEnvs(v) ==
    {[has_input |-> FALSE, exc |-> "none", current |-> << >>, visible |-> << >>,
      current2 |-> << >>, visible2 |-> << >>],
     [has_input |-> TRUE, exc |-> "first", current |-> << >>, visible |-> << >>,
      current2 |-> << >>, visible2 |-> << >>],
     [has_input |-> TRUE, exc |-> "none", current |-> <<" ">> \o Upper(v), visible |-> v,
      current2 |-> << >>, visible2 |-> << >>]}
    \cup
    {[has_input |-> TRUE, exc |-> x, current |-> c, visible |-> w,
      current2 |-> r[1], visible2 |-> r[2]] :
        c \in {v, <<"4", "7">>, << >>}, w \in {v, <<"4", "7">>, << >>},
        x \in {"none", "retype"},
        r \in {<<v, v>>, <<v, <<"4", "7">>>>, <<<<"4", "7">>, <<"4", "7">>>>, <<<< >>, v>>}}

NoCommit == [ok |-> FALSE, via |-> "none", current |-> << >>, visible |-> << >>]

\* lines 489-573: the for loop over the containers. via tells which test
\* accepted ("first": lines 538-542, "retype": lines 566-569), with the values
\* read back by that test
RECURSIVE CommitLoop(_, _, _)
CommitLoop(cs, model_value, required) ==
    IF cs = << >>
    THEN [NoCommit EXCEPT !.ok = ~required, !.via = IF required THEN "rejected" ELSE "not_required"]
    ELSE
    LET c             == Head(cs)
        current       == Strip(c.current)
        visible_value == Strip(c.visible)
        current_ok    == norm(current) = norm(model_value) /\ ~isdigit(current)
        visible_ok    == norm(visible_value) = norm(model_value) /\ ~isdigit(visible_value)
        current2      == Strip(c.current2)
        visible2      == Strip(c.visible2)
    IN  IF ~c.has_input THEN CommitLoop(Tail(cs), model_value, required)
        ELSE IF c.exc = "first" THEN CommitLoop(Tail(cs), model_value, TRUE)
        ELSE IF current_ok /\ visible_ok
        THEN [ok |-> TRUE, via |-> "first", current |-> current, visible |-> visible_value]
        ELSE IF isdigit(current) \/ isdigit(visible_value)
        THEN IF c.exc = "retype" THEN CommitLoop(Tail(cs), model_value, TRUE)
             ELSE IF norm(current2) = norm(model_value) /\ norm(visible2) = norm(model_value)
             THEN [ok |-> TRUE, via |-> "retype", current |-> current2, visible |-> visible2]
             ELSE CommitLoop(Tail(cs), model_value, TRUE)
        ELSE CommitLoop(Tail(cs), model_value, TRUE)

\* lines 442-573; cs are the active containers that carry the label
enforce_model_input_commit(cs, model_value) ==
    IF cs = << >>
    THEN [NoCommit EXCEPT !.ok = TRUE, !.via = "absent"]
    ELSE CommitLoop(cs, model_value, FALSE)

ModelInit ==
    /\ FnIdle
    /\ \E v \in ModelValues :
       \E cs \in {<< >>} \cup SeqsUpTo(ContainerEnvs(v), MaxContainers) :
         probe = [fn |-> "enforce_model_input_commit", model_value |-> v, containers |-> cs,
                  done |-> FALSE, out |-> NoCommit]

\* run_single_listing, lines 1689-1691: the call of enforce_model_input_commit
ModelCommit ==
    /\ probe.fn = "enforce_model_input_commit"
    /\ ~probe.done
    /\ probe' = [probe EXCEPT !.done = TRUE,
                               !.out = enforce_model_input_commit(probe.containers, probe.model_value)]
    /\ UNCHANGED <<mainVars, runVars, pair>>

SpecModel == ModelInit /\ [][ModelCommit]_vars

(***************************************************************************)
(* patch_dom: the page, and one pass of the script over it                 *)
(*                                                                         *)
(* The page is the sequence of its field blocks in document order.  A      *)
(* block holds, in document order: the label span, the chain of            *)
(* div.xh8yej3 wrappers around the display div from the outermost to the   *)
(* innermost, the display div with its value span, an input synthesized in *)
(* the place of the display div, the block's own inputs and its textarea.  *)
(***************************************************************************)
\* the labels and element ids of the module constants, lines 36-67, and the ids
\* written in the script itself, lines 950-1080
K ==
    [VEHICLE_TYPE_LABEL  |-> <<"J","e","n","i","s"," ","k","e","n","d","a","r","a","a","n">>,
     YEAR_FIELD_LABEL    |-> <<"T","a","h","u","n">>,
     BRAND_LABEL         |-> <<"M","e","r","e","k">>,
     MODEL_LABEL         |-> <<"M","o","d","e","l">>,
     PRICE_LABEL         |-> <<"H","a","r","g","a">>,
     MILEAGE_LABEL       |-> <<"J","a","r","a","k"," ","T","e","m","p","u","h">>,
     DESCRIPTION_LABEL   |-> <<"K","e","t","e","r","a","n","g","a","n">>,
     LOCATION_LABEL      |-> <<"L","o","k","a","s","i">>,
     VEHICLE_TYPE_WRAPPER_ID      |-> "_r_5u_",
     VEHICLE_TYPE_WRAPPER_ID_ALT  |-> "_r_7l_",
     VEHICLE_TYPE_WRAPPER_ID_ALT2 |-> "_r_76_",
     VEHICLE_TYPE_WRAPPER_ID_ALT3 |-> "_r_4p_",
     YEAR_FIELD_WRAPPER_ID        |-> "_r_6b",
     YEAR_FIELD_WRAPPER_ID_ALT    |-> "_r_5u_",
     MAKE_INPUT_ID                |-> "_r_2s_",
     TOYOTA_INPUT_ID              |-> "_r_1s_",
     BRAND_INPUT_ID               |-> "_r_22_",
     BRAND_WRAPPER_ID             |-> "_r_6r_",
     MODEL_INPUT_ID               |-> "_r_26_",
     MODEL_INPUT_ID_ALT           |-> "_r_6a_",
     MODEL_INPUT_ID_ALT2          |-> "_r_76_",
     PRICE_INPUT_ID               |-> "_r_3a_",
     MILEAGE_INPUT_ID             |-> "_r_5g_",
     MILEAGE_INPUT_ID_ALT         |-> "_r_91_",
     DESCRIPTION_TEXTAREA_ID      |-> "_r_3e_",
     LegacyVehicleId              |-> "_r_25_",
     LegacyYearIds                |-> <<"_r_2k_", "_r_2c_", "_r_2v_">>]

\* a wrapper: cls is "exact" when className normalizes to 'xh8yej3', "extra" when
\* the class list holds xh8yej3 among others; tab is tabindex="-1"
Wr(id, cls, tab) == [id |-> id, cls |-> cls, tab |-> tab]

\* the display div: cls is className = DIV_CLASS, span the text of the value span
NoDisp     == [present |-> FALSE, cls |-> FALSE, span |-> NoneV]
Disp(text) == [present |-> TRUE, cls |-> TRUE, span |-> text]

\* an input or a textarea.  host is what the page's own code does on the events
\* setControlValue dispatches: "keep" leaves the written value, "revert" puts the
\* earlier value back, "format" shows the value with a currency prefix
NoControl == [present |-> FALSE, id |-> "", text |-> FALSE, lokasi |-> FALSE,
              visible |-> FALSE, value |-> << >>, host |-> "keep"]
Inp(id, value, host) ==
    [present |-> TRUE, id |-> id, text |-> TRUE, lokasi |-> FALSE, visible |-> TRUE,
     value |-> value, host |-> host]

Blk(label, wrappers, disp, inputs, textarea) ==
    [label |-> label, container |-> TRUE, combobox |-> disp.present, visible |-> TRUE,
     wrappers |-> wrappers, disp |-> disp, rec |-> NoControl, inputs |-> inputs,
     textarea |-> textarea]

\* the inputs of a block in document order
Inputs(b) == IF b.rec.present THEN <<b.rec>> \o b.inputs ELSE b.inputs

SetInput(b, k, inp) ==
    IF b.rec.present
    THEN IF k = 1 THEN [b EXCEPT !.rec = inp] ELSE [b EXCEPT !.inputs[k - 1] = inp]
    ELSE [b EXCEPT !.inputs[k] = inp]

HasSpan(b) == b.disp.present /\ b.disp.span # NoneV

\* the smallest member of a non-empty set of numbers, 0 for the empty set
First(S) == IF S = {} THEN 0 ELSE CHOOSE i \in S : \A j \in S : i <= j

\* the members of S in increasing order
RECURSIVE InOrder(_)
InOrder(S) == IF S = {} THEN << >> ELSE <<First(S)>> \o InOrder(S \ {First(S)})

\* [...xs.filter(isVisible), ...xs.filter((c) => !isVisible(c))] over blocks
VisibleFirst(page, S) ==
    InOrder({i \in S : page[i].visible}) \o InOrder({i \in S : ~page[i].visible})

\* container.querySelector('span') is the label; querySelectorAll('span') adds
\* the value span
FirstSpanIs(b, label) == b.label # NoneV /\ Strip(b.label) = label
AnySpanIs(b, label)   == FirstSpanIs(b, label) \/ (HasSpan(b) /\ Strip(b.disp.span) = label)

\* the element of a block that carries an id
NoElem == [kind |-> "none", b |-> 0, k |-> 0]
ElemIn(b, bi, id) ==
    LET ws == {k \in 1..Len(b.wrappers) : b.wrappers[k].id = id}
        is == {k \in 1..Len(Inputs(b)) : Inputs(b)[k].id = id}
    IN  IF id = "" THEN NoElem
        ELSE IF ws # {} THEN [kind |-> "wrapper", b |-> bi, k |-> First(ws)]
        ELSE IF is # {} THEN [kind |-> "input", b |-> bi, k |-> First(is)]
        ELSE IF b.textarea.present /\ b.textarea.id = id
             THEN [kind |-> "textarea", b |-> bi, k |-> 0]
        ELSE NoElem

\* document.getElementById
getElementById(page, id) ==
    LET bi == First({i \in 1..Len(page) : ElemIn(page[i], i, id).kind # "none"})
    IN  IF bi = 0 THEN NoElem ELSE ElemIn(page[bi], bi, id)

\* document.querySelector('input#id') and ('textarea#id')
QueryById(page, kind, id) ==
    LET Hit(i) == IF kind = "input"
                  THEN {k \in 1..Len(Inputs(page[i])) : Inputs(page[i])[k].id = id}
                  ELSE IF page[i].textarea.present /\ page[i].textarea.id = id THEN {0} ELSE {}
        bi == First({i \in 1..Len(page) : id # "" /\ Hit(i) # {}})
    IN  IF bi = 0 THEN NoElem ELSE [kind |-> kind, b |-> bi, k |-> First(Hit(bi))]

\* the wrappers of a block that div.xh8yej3[tabindex="-1"] selects
TabWrappers(b) == {k \in 1..Len(b.wrappers) : b.wrappers[k].cls # "other" /\ b.wrappers[k].tab}

\* lines 834-840
digitsOnly(v) == SelectSeq(v, LAMBDA c : c \in Digits)
Cleaned(v) ==
    Strip(CollapseSpaces([i \in 1..Len(v) |-> IF v[i] = Nbsp THEN " " ELSE v[i]]))
normalizedText(v) == Lower(Cleaned(v))
modelTextMatches(v, modelInputValue) ==
    /\ Cleaned(v) # << >>
    /\ ~isdigit(Cleaned(v))
    /\ normalizedText(Cleaned(v)) = normalizedText(modelInputValue)

\* the comparison that ends setControlValue: equality (line 873) or the digit
\* comparison passed by the price and mileage writes (lines 1265-1269)
Validated(validator, actual, expected) ==
    IF validator = "digits"
    THEN IF digitsOnly(expected) = << >> THEN Strip(actual) = Strip(expected)
         ELSE digitsOnly(actual) = digitsOnly(expected)
    ELSE actual = expected

\* what the control holds once the input, change and blur events are handled
Hosted(el, textValue) ==
    CASE el.host = "keep"   -> textValue
      [] el.host = "revert" -> el.value
      [] el.host = "format" -> <<"R", "p">> \o textValue

\* a write that reports success without reading the control back
setControlValue_Unchecked(el, value, validator) ==
    [el |-> [el EXCEPT !.value = Hosted(el, value)], ok |-> TRUE]

\* setControlValue, lines 842-874: the control after the write, and the verdict
setControlValue(el, value, validator) ==
    LET actual == Hosted(el, value)
    IN  [el |-> [el EXCEPT !.value = actual], ok |-> Validated(validator, actual, value)]

\* patchExistingWrapper, lines 876-890, on wrapper k of block bi
Patchable(b, k) == b.wrappers[k].cls = "exact" /\ HasSpan(b)

patchExistingWrapper(page, bi, k, textValue, forceId) ==
    IF ~Patchable(page[bi], k) THEN [ok |-> FALSE, page |-> page]
    ELSE [ok |-> TRUE,
          page |-> [page EXCEPT ![bi].disp.span = textValue,
                                ![bi].wrappers[k].id = IF forceId # "" THEN forceId ELSE @,
                                ![bi].wrappers[k].tab = TRUE]]

\* findFallbackYearWrapper, lines 892-907: <<block, wrapper>> of the first wrapper
\* in document order that qualifies, <<0, 0>> when there is none
findFallbackYearWrapper(page, used, targetYearText) ==
    LET Fits(i, k) ==
            /\ k \in TabWrappers(page[i])
            /\ <<i, k>> \notin used
            /\ page[i].wrappers[k].id # K.LegacyVehicleId
            /\ HasSpan(page[i])
            /\ Strip(RemoveNbsp(page[i].disp.span)) \in {<< >>, targetYearText}
        bi == First({i \in 1..Len(page) : \E k \in 1..Len(page[i].wrappers) : Fits(i, k)})
    IN  IF bi = 0 THEN <<0, 0>>
        ELSE <<bi, First({k \in 1..Len(page[bi].wrappers) : Fits(bi, k)})>>

\* setWrappedTargetText, lines 909-948 (attrName is empty, its default)
setWrappedTargetText(page, wrapperId, textValue, allowWrapCreate) ==
    LET directWrapper == getElementById(page, wrapperId)
        patched == IF directWrapper.kind = "wrapper"
                   THEN patchExistingWrapper(page, directWrapper.b, directWrapper.k,
                                             textValue, wrapperId)
                   ELSE [ok |-> FALSE, page |-> page]
        div == First({i \in 1..Len(page) :
                        /\ page[i].disp.present /\ page[i].disp.cls /\ HasSpan(page[i])
                        /\ Strip(RemoveNbsp(page[i].disp.span)) = << >>})
    IN  IF patched.ok THEN patched
        ELSE IF ~allowWrapCreate \/ div = 0 THEN [ok |-> FALSE, page |-> page]
        ELSE [ok |-> TRUE,
              page |-> [page EXCEPT ![div].disp.span = textValue,
                                    ![div].wrappers = Append(@, Wr(wrapperId, "exact", TRUE))]]

\* setWrappedTargetText(id, text, false) for each id in turn, until one succeeds
RECURSIVE TryIds(_, _, _)
TryIds(page, ids, textValue) ==
    IF ids = << >> THEN [ok |-> FALSE, page |-> page]
    ELSE LET r == setWrappedTargetText(page, Head(ids), textValue, FALSE)
         IN  IF r.ok THEN r ELSE TryIds(page, Tail(ids), textValue)

\* container.querySelector('#id') as a wrapper of the block; any other element
\* with the id fails the class test of patchExistingWrapper
RECURSIVE WrappersById(_, _, _)
WrappersById(b, bi, ids) ==
    IF ids = << >> THEN << >>
    ELSE (IF ElemIn(b, bi, Head(ids)).kind = "wrapper"
          THEN <<ElemIn(b, bi, Head(ids)).k>> ELSE << >>) \o WrappersById(b, bi, Tail(ids))

\* lines 957-1000: the loop over the containers of the vehicle-type label
RECURSIVE VehicleTypeLoop(_, _, _)
VehicleTypeLoop(page, cs, targetText) ==
    IF cs = << >> THEN [ok |-> FALSE, page |-> page]
    ELSE LET i == Head(cs)
             b == page[i]
             ids == <<K.VEHICLE_TYPE_WRAPPER_ID, K.VEHICLE_TYPE_WRAPPER_ID_ALT,
                      K.VEHICLE_TYPE_WRAPPER_ID_ALT2, K.VEHICLE_TYPE_WRAPPER_ID_ALT3>>
             wrappers == WrappersById(b, i, ids)
                         \o (IF TabWrappers(b) = {} THEN << >> ELSE <<First(TabWrappers(b))>>)
             good == SelectSeq(wrappers, LAMBDA k : Patchable(b, k))
             result == IF good # << >>
                       THEN patchExistingWrapper(page, i, Head(good), targetText, "")
                       ELSE TryIds(page, ids, targetText)
         IN  IF result.ok THEN result ELSE VehicleTypeLoop(page, Tail(cs), targetText)

\* lines 1002-1040: the loop over the comboboxes of the year label
RECURSIVE YearFieldLoop(_, _, _)
YearFieldLoop(page, cs, targetYearText) ==
    IF cs = << >> THEN [ok |-> FALSE, page |-> page]
    ELSE LET i == Head(cs)
             b == page[i]
             ids == <<K.YEAR_FIELD_WRAPPER_ID, K.YEAR_FIELD_WRAPPER_ID_ALT>>
             wrappers == WrappersById(b, i, ids) \o InOrder(TabWrappers(b))
             good == SelectSeq(wrappers, LAMBDA k : Patchable(b, k))
             result == IF good # << >>
                       THEN patchExistingWrapper(page, i, Head(good), targetYearText,
                                                 b.wrappers[Head(good)].id)
                       ELSE TryIds(page, ids, targetYearText)
         IN  IF result.ok THEN result ELSE YearFieldLoop(page, Tail(cs), targetYearText)

\* line 950: the legacy vehicle-type write, which may wrap an empty display div
LegacyVehicle(s, g) ==
    LET vehicleResult == setWrappedTargetText(s.page, K.LegacyVehicleId, g.TARGET_TEXT, TRUE)
    IN  [s EXCEPT !.page = vehicleResult.page, !.r.vehiclePatched = vehicleResult.ok]

\* lines 957-1000
VehicleTypeSection(s, g) ==
    LET vehicleTypeContainers ==
            {i \in 1..Len(s.page) :
                s.page[i].container /\ AnySpanIs(s.page[i], K.VEHICLE_TYPE_LABEL)}
        result == VehicleTypeLoop(s.page, VisibleFirst(s.page, vehicleTypeContainers),
                                  g.TARGET_TEXT)
    IN  [s EXCEPT !.page = result.page, !.r.vehicleTypePatched = result.ok,
                  !.r.vehicleTypeRequired = vehicleTypeContainers # {}]

\* lines 1002-1040
YearFieldSection(s, g) ==
    LET yearComboboxBlocks ==
            {i \in 1..Len(s.page) :
                s.page[i].combobox /\ AnySpanIs(s.page[i], K.YEAR_FIELD_LABEL)}
        result == YearFieldLoop(s.page, VisibleFirst(s.page, yearComboboxBlocks),
                                g.TARGET_YEAR_TEXT)
    IN  [s EXCEPT !.page = result.page, !.r.yearFieldPatched = result.ok,
                  !.r.yearFieldRequired = yearComboboxBlocks # {}]

\* lines 1042-1097: one of the three legacy year writes, with its fallback
LegacyYear(s, id, g) ==
    LET direct == setWrappedTargetText(s.page, id, g.TARGET_YEAR_TEXT, FALSE)
        el == getElementById(direct.page, id)
        fallback == findFallbackYearWrapper(s.page, s.used, g.TARGET_YEAR_TEXT)
        final == patchExistingWrapper(s.page, fallback[1], fallback[2],
                                      g.TARGET_YEAR_TEXT, "")
    IN  IF direct.ok
        THEN [s EXCEPT !.page = direct.page, !.used = @ \cup {<<el.b, el.k>>},
                       !.r.yearPatchedCount = @ + 1]
        ELSE IF fallback = <<0, 0>> THEN s
        ELSE [s EXCEPT !.page = final.page, !.used = @ \cup {fallback},
                       !.r.yearPatchedCount = IF final.ok THEN @ + 1 ELSE @]

\* lines 1099-1131: the make input, found by id or synthesized in the place of the
\* first display div that shows the brand value
MakeSection(s, g) ==
    LET page == s.page
        makeInput == getElementById(page, K.MAKE_INPUT_ID)
        existingMakeDiv ==
            First({i \in 1..Len(page) :
                     /\ page[i].disp.present /\ page[i].disp.cls /\ HasSpan(page[i])
                     /\ Strip(page[i].disp.span) = g.TOYOTA_INPUT_VALUE})
        w == setControlValue(Inputs(page[makeInput.b])[makeInput.k], g.MAKE_INPUT_VALUE, "exact")
    IN  IF makeInput.kind = "input"
        THEN [s EXCEPT !.page[makeInput.b] = SetInput(@, makeInput.k, w.el),
                       !.r.makeRequired = TRUE, !.r.makePatched = w.ok]
        ELSE IF existingMakeDiv # 0
        THEN [s EXCEPT !.page[existingMakeDiv].disp = NoDisp,
                       !.page[existingMakeDiv].rec = Inp(K.MAKE_INPUT_ID, g.MAKE_INPUT_VALUE, "keep"),
                       !.r.makeRequired = TRUE, !.r.makePatched = TRUE]
        ELSE IF makeInput.kind = "none" THEN s
        ELSE [s EXCEPT !.r.makeRequired = TRUE,
                       !.r.makePatched = IF makeInput.kind = "textarea"
                                         THEN page[makeInput.b].textarea.value = g.MAKE_INPUT_VALUE
                                         ELSE << >> = g.MAKE_INPUT_VALUE]

\* lines 1171-1179: the candidates are written in turn until one write verifies
RECURSIVE BrandInputs(_, _, _, _)
BrandInputs(page, i, ks, toyotaInputValue) ==
    IF ks = << >> THEN [ok |-> FALSE, page |-> page]
    ELSE LET w  == setControlValue(Inputs(page[i])[Head(ks)], toyotaInputValue, "exact")
             p1 == [page EXCEPT ![i] = SetInput(@, Head(ks), w.el)]
         IN  IF w.ok THEN [ok |-> TRUE, page |-> p1]
             ELSE BrandInputs(p1, i, Tail(ks), toyotaInputValue)

\* lines 1146-1181: the loop over the containers of the brand label
RECURSIVE BrandLoop(_, _, _)
BrandLoop(page, cs, toyotaInputValue) ==
    IF cs = << >> THEN [ok |-> FALSE, page |-> page]
    ELSE LET i == Head(cs)
             b == page[i]
             wrapperCandidates == WrappersById(b, i, <<K.BRAND_WRAPPER_ID>>)
                                  \o InOrder(TabWrappers(b))
             good == SelectSeq(wrapperCandidates, LAMBDA k : Patchable(b, k))
             inputCandidates ==
                 InOrder({k \in 1..Len(Inputs(b)) : Inputs(b)[k].id = K.BRAND_INPUT_ID})
                     \o InOrder({k \in 1..Len(Inputs(b)) : Inputs(b)[k].text})
             orderedInputs ==
                 SelectSeq(inputCandidates, LAMBDA k : Inputs(b)[k].visible)
                     \o SelectSeq(inputCandidates, LAMBDA k : ~Inputs(b)[k].visible)
             written == BrandInputs(page, i, orderedInputs, toyotaInputValue)
         IN  IF good # << >>
             THEN patchExistingWrapper(page, i, Head(good), toyotaInputValue,
                                       b.wrappers[Head(good)].id)
             ELSE IF written.ok THEN written
             ELSE BrandLoop(written.page, Tail(cs), toyotaInputValue)

\* lines 1133-1193
BrandSection(s, g) ==
    LET page == s.page
        toyotaInput == getElementById(page, K.TOYOTA_INPUT_ID)
        matchingBrandContainers ==
            {i \in 1..Len(page) : page[i].container /\ FirstSpanIs(page[i], K.BRAND_LABEL)}
        looped == BrandLoop(page, VisibleFirst(page, matchingBrandContainers),
                            g.TOYOTA_INPUT_VALUE)
        w == setControlValue(Inputs(page[toyotaInput.b])[toyotaInput.k],
                             g.TOYOTA_INPUT_VALUE, "exact")
    IN  IF matchingBrandContainers # {}
        THEN [s EXCEPT !.page = looped.page, !.r.toyotaInputRequired = TRUE,
                       !.r.toyotaInputPatched = looped.ok]
        ELSE IF toyotaInput.kind = "input"
        THEN [s EXCEPT !.page[toyotaInput.b] = SetInput(@, toyotaInput.k, w.el),
                       !.r.toyotaInputRequired = TRUE, !.r.toyotaInputPatched = w.ok]
        ELSE IF toyotaInput.kind = "none" THEN s
        ELSE [s EXCEPT !.r.toyotaInputRequired = TRUE,
                       !.r.toyotaInputPatched =
                           IF toyotaInput.kind = "textarea"
                           THEN page[toyotaInput.b].textarea.value = g.TOYOTA_INPUT_VALUE
                           ELSE << >> = g.TOYOTA_INPUT_VALUE]

\* lines 1195-1250: the model field is read, never written
ModelSection(s, g) ==
    LET page == s.page
        ids == {K.MODEL_INPUT_ID, K.MODEL_INPUT_ID_ALT, K.MODEL_INPUT_ID_ALT2}
        matchingModelContainers ==
            {i \in 1..Len(page) : page[i].container /\ FirstSpanIs(page[i], K.MODEL_LABEL)}
        Shown(b) ==
            \/ /\ TabWrappers(b) # {} /\ HasSpan(b)
               /\ modelTextMatches(b.disp.span, g.MODEL_INPUT_VALUE)
            \/ \E k \in 1..Len(Inputs(b)) :
                  /\ Inputs(b)[k].id \in ids \/ Inputs(b)[k].text
                  /\ modelTextMatches(Inputs(b)[k].value, g.MODEL_INPUT_VALUE)
        f1 == QueryById(page, "input", K.MODEL_INPUT_ID)
        f2 == QueryById(page, "input", K.MODEL_INPUT_ID_ALT)
        f3 == QueryById(page, "input", K.MODEL_INPUT_ID_ALT2)
        modelFallback == IF f1.kind # "none" THEN f1 ELSE IF f2.kind # "none" THEN f2 ELSE f3
    IN  IF matchingModelContainers # {}
        THEN [s EXCEPT !.r.modelRequired = TRUE,
                       !.r.modelPatched = \E i \in matchingModelContainers : Shown(page[i])]
        ELSE IF modelFallback.kind = "none" THEN s
        ELSE [s EXCEPT !.r.modelRequired = TRUE,
                       !.r.modelPatched =
                           modelTextMatches(Inputs(page[modelFallback.b])[modelFallback.k].value,
                                            g.MODEL_INPUT_VALUE)]

\* a || b || ... over document.querySelector('input#id')
RECURSIVE FirstById(_, _)
FirstById(page, ids) ==
    IF ids = << >> THEN NoElem
    ELSE IF QueryById(page, "input", Head(ids)).kind # "none"
         THEN QueryById(page, "input", Head(ids))
         ELSE FirstById(page, Tail(ids))

\* container.querySelector('input#id') || ... || container.querySelector('input[type="text"]')
RECURSIVE InputOf(_, _)
InputOf(b, ids) ==
    IF ids = << >> THEN First({k \in 1..Len(Inputs(b)) : Inputs(b)[k].text})
    ELSE IF \E k \in 1..Len(Inputs(b)) : Inputs(b)[k].id = Head(ids)
         THEN First({k \in 1..Len(Inputs(b)) : Inputs(b)[k].id = Head(ids)})
         ELSE InputOf(b, Tail(ids))

\* lines 1252-1287 (price: label in the first span, one id) and lines 1289-1329
\* (mileage: label in any span, two ids), each write with the digit comparison
InputSection(s, field, g) ==
    LET page  == s.page
        label == IF field = "price" THEN K.PRICE_LABEL ELSE K.MILEAGE_LABEL
        ids   == IF field = "price" THEN <<K.PRICE_INPUT_ID>>
                 ELSE <<K.MILEAGE_INPUT_ID, K.MILEAGE_INPUT_ID_ALT>>
        value == IF field = "price" THEN g.PRICE_INPUT_VALUE ELSE g.MILEAGE_INPUT_VALUE
        container == First({i \in 1..Len(page) : page[i].container /\
                              (IF field = "price" THEN FirstSpanIs(page[i], label)
                               ELSE AnySpanIs(page[i], label))})
        k  == IF container = 0 THEN 0 ELSE InputOf(page[container], ids)
        at == IF k # 0 THEN [kind |-> "input", b |-> container, k |-> k]
              ELSE FirstById(page, ids)
        w  == setControlValue(Inputs(page[at.b])[at.k], value, "digits")
    IN  IF at.kind = "none" THEN s
        ELSE IF field = "price"
        THEN [s EXCEPT !.page[at.b] = SetInput(@, at.k, w.el),
                       !.r.priceRequired = TRUE, !.r.pricePatched = w.ok]
        ELSE [s EXCEPT !.page[at.b] = SetInput(@, at.k, w.el),
                       !.r.mileageRequired = TRUE, !.r.mileagePatched = w.ok]

\* lines 1331-1350
DescriptionSection(s, g) ==
    LET page == s.page
        container == First({i \in 1..Len(page) : page[i].container /\
                              FirstSpanIs(page[i], K.DESCRIPTION_LABEL)})
        fallback == QueryById(page, "textarea", K.DESCRIPTION_TEXTAREA_ID)
        at == IF container # 0 /\ page[container].textarea.present THEN container
              ELSE fallback.b
        w == setControlValue(page[at].textarea, g.DESCRIPTION_TEXT, "exact")
    IN  IF at = 0 THEN s
        ELSE [s EXCEPT !.page[at].textarea = w.el,
                       !.r.descriptionRequired = TRUE, !.r.descriptionPatched = w.ok]

\* lines 1352-1368
LocationSection(s, g) ==
    LET page == s.page
        Lokasi(b) == {k \in 1..Len(Inputs(b)) : Inputs(b)[k].lokasi}
        container == First({i \in 1..Len(page) : page[i].container /\
                              FirstSpanIs(page[i], K.LOCATION_LABEL) /\ Lokasi(page[i]) # {}})
        k == First(Lokasi(page[container]))
        w == setControlValue(Inputs(page[container])[k], g.LOCATION_TEXT, "exact")
    IN  IF container = 0 THEN s
        ELSE [s EXCEPT !.page[container] = SetInput(@, k, w.el), !.r.locationPatched = w.ok]

\* the readiness test that lets every page through
pageReady_Always(page) == TRUE

\* lines 758-770
pageReady(page) ==
    \E i \in 1..Len(page) :
       \E label \in {K.VEHICLE_TYPE_LABEL, K.YEAR_FIELD_LABEL, K.BRAND_LABEL, K.MODEL_LABEL,
                     K.PRICE_LABEL, K.DESCRIPTION_LABEL, K.LOCATION_LABEL} :
          AnySpanIs(page[i], label)

NotReady ==
    [ok |-> FALSE, pageReady |-> FALSE,
     vehiclePatched |-> FALSE, yearPatchedCount |-> 0,
     makePatched |-> FALSE, makeRequired |-> FALSE,
     toyotaInputPatched |-> FALSE, toyotaInputRequired |-> FALSE,
     vehicleTypePatched |-> FALSE, vehicleTypeRequired |-> FALSE,
     yearFieldPatched |-> FALSE, yearFieldRequired |-> FALSE,
     modelPatched |-> FALSE, modelRequired |-> FALSE,
     pricePatched |-> FALSE, priceRequired |-> FALSE,
     mileagePatched |-> FALSE, mileageRequired |-> FALSE,
     descriptionPatched |-> FALSE, descriptionRequired |-> FALSE,
     locationPatched |-> FALSE]

\* lines 1370-1384
PassOk(r) ==
    LET toyotaGroupOk       == (~r.makeRequired /\ ~r.toyotaInputRequired)
                               \/ r.makePatched \/ r.toyotaInputPatched
        vehicleTypeGroupOk  == ~r.vehicleTypeRequired \/ r.vehicleTypePatched
        yearFieldGroupOk    == ~r.yearFieldRequired \/ r.yearFieldPatched
        modelGroupOk        == TRUE
        priceGroupOk        == ~r.priceRequired \/ r.pricePatched
        mileageGroupOk      == ~r.mileageRequired \/ r.mileagePatched
        descriptionGroupOk  == ~r.descriptionRequired \/ r.descriptionPatched
        legacyVehicleOk     == r.vehiclePatched \/ vehicleTypeGroupOk
        legacyYearOk        == r.yearPatchedCount >= 1 \/ yearFieldGroupOk
    IN  /\ legacyVehicleOk /\ legacyYearOk /\ vehicleTypeGroupOk /\ yearFieldGroupOk
        /\ toyotaGroupOk /\ modelGroupOk /\ priceGroupOk /\ mileageGroupOk
        /\ descriptionGroupOk /\ r.locationPatched

\* lines 1383-1432: the object the script returns, with the page it leaves
PassResult(s) == [page |-> s.page, result |-> [s.r EXCEPT !.ok = PassOk(s.r)]]

\* the script of patch_dom, lines 747-1433, run with the globals g.  The sections
\* run in the order of the script, each on the page the section before it left.
patch_dom(page, g) ==
    IF ~pageReady(page) THEN [page |-> page, result |-> NotReady]
    ELSE PassResult(
           LocationSection(DescriptionSection(
           InputSection(InputSection(
           ModelSection(BrandSection(MakeSection(
           LegacyYear(LegacyYear(LegacyYear(
           YearFieldSection(VehicleTypeSection(LegacyVehicle(
               [page |-> page, used |-> {}, r |-> [NotReady EXCEPT !.pageReady = TRUE]],
           g), g), g),
           K.LegacyYearIds[1], g), K.LegacyYearIds[2], g), K.LegacyYearIds[3], g),
           g), g), g),
           "price", g), "mileage", g),
           g), g))

\* the variants of each field's block on the pages explored
Opt(S) == {<< >>} \cup {<<b>> : b \in S}

FieldBlocks(g) ==
    LET Combo(label, wrappers, text) == Blk(label, wrappers, Disp(text), << >>, NoControl)
        Text(label, id, host) == Blk(label, << >>, NoDisp, <<Inp(id, << >>, host)>>, NoControl)
    IN
    [vehicleType |->
        { Combo(K.VEHICLE_TYPE_LABEL, <<Wr(K.VEHICLE_TYPE_WRAPPER_ID, "exact", FALSE)>>, << >>),
          Combo(K.VEHICLE_TYPE_LABEL, << >>, << >>) },
     year |->
        { Combo(K.YEAR_FIELD_LABEL, <<Wr("", "exact", TRUE)>>, << >>),
          Combo(K.YEAR_FIELD_LABEL, <<Wr("", "extra", TRUE)>>, << >>) },
     brand |->
        { Combo(K.BRAND_LABEL, <<Wr("", "exact", TRUE)>>, << >>),
          Combo(K.BRAND_LABEL, <<Wr("", "exact", TRUE)>>, g.TOYOTA_INPUT_VALUE),
          Text(K.BRAND_LABEL, K.BRAND_INPUT_ID, "keep") },
     model |->
        { Combo(K.MODEL_LABEL, <<Wr("", "exact", TRUE)>>, << >>),
          Text(K.MODEL_LABEL, K.MODEL_INPUT_ID, "keep") },
     price |->
        { Text(K.PRICE_LABEL, K.PRICE_INPUT_ID, h) : h \in {"keep", "format", "revert"} }
        \cup { Blk(K.PRICE_LABEL, << >>, NoDisp, << >>, NoControl) },
     mileage |-> { Text(K.MILEAGE_LABEL, K.MILEAGE_INPUT_ID, "keep") },
     description |->
        { Blk(K.DESCRIPTION_LABEL, << >>, NoDisp, << >>,
              [Inp(K.DESCRIPTION_TEXTAREA_ID, << >>, "keep") EXCEPT !.text = FALSE]) },
     location |->
        { Blk(K.LOCATION_LABEL, << >>, NoDisp,
              <<[Inp("", << >>, "keep") EXCEPT !.text = FALSE, !.lokasi = TRUE]>>, NoControl) },
     make |->
        { [Text(NoneV, K.MAKE_INPUT_ID, "keep") EXCEPT !.container = FALSE] }]

\* the globals of a pass: the defaults, and a record whose make repeats its
\* vehicle type
PassGlobals ==
    { InitialGlobals, [InitialGlobals EXCEPT !.TOYOTA_INPUT_VALUE = InitialGlobals.TARGET_TEXT] }

\* the pages explored: each field is absent or shown by one of its variants.
\* The stability counter stands at 1: the pass before succeeded on what the
\* page showed then
PassInit ==
    /\ FnIdle
    /\ \E g \in PassGlobals :
       LET F == FieldBlocks(g) IN
       \E v \in Opt(F.vehicleType), y \in Opt(F.year), b \in Opt(F.brand),
          m \in Opt(F.model), p \in Opt(F.price), k \in Opt(F.mileage),
          d \in Opt(F.description), l \in Opt(F.location), a \in Opt(F.make) :
         LET page == v \o y \o b \o m \o p \o k \o d \o l \o a
         IN  probe = [fn |-> "patch_dom", g |-> g, page |-> page, before |-> page, n |-> 0,
                      result |-> NotReady, prev_ok |-> FALSE, dom_stable_count |-> 1]

\* lines 1672-1676: what the loop holds once the pass has returned out, the
\* stability counter included
AfterPass(p, out) ==
    [p EXCEPT !.before = p.page, !.page = out.page, !.n = @ + 1,
              !.prev_ok = p.result.ok, !.result = out.result,
              !.dom_stable_count = NextStable(out.result.ok, @)]

\* run_single_listing, line 1672: one more pass over the page the last pass
\* left, the host having changed nothing in between
Pass ==
    /\ probe.fn = "patch_dom"
    /\ probe.n < MaxPasses
    /\ probe' = AfterPass(probe, patch_dom(probe.page, probe.g))
    /\ UNCHANGED <<mainVars, runVars, pair>>

SpecPass == PassInit /\ [][Pass]_vars

\* a container that isVisible (lines 820-825) rejects, with the controls inside it
Hidden(b) ==
    [b EXCEPT !.visible = FALSE,
              !.inputs = [k \in 1..Len(b.inputs) |-> [b.inputs[k] EXCEPT !.visible = FALSE]],
              !.textarea = [b.textarea EXCEPT !.visible = FALSE]]

\* the fields whose control the script looks for by label and by id
LocateFields == {"vehicleType", "brand", "price", "mileage", "description"}

\* the label of a field, the id the script asks the field's container for and
\* the id it asks the whole document for
LocateKeys(f) ==
    CASE f = "vehicleType" -> [label |-> K.VEHICLE_TYPE_LABEL, inner |-> "", outer |-> ""]
      [] f = "brand"       -> [label |-> K.BRAND_LABEL, inner |-> K.BRAND_INPUT_ID,
                               outer |-> K.TOYOTA_INPUT_ID]
      [] f = "price"       -> [label |-> K.PRICE_LABEL, inner |-> K.PRICE_INPUT_ID,
                               outer |-> K.PRICE_INPUT_ID]
      [] f = "mileage"     -> [label |-> K.MILEAGE_LABEL, inner |-> K.MILEAGE_INPUT_ID,
                               outer |-> K.MILEAGE_INPUT_ID_ALT]
      [] f = "description" -> [label |-> K.DESCRIPTION_LABEL,
                               inner |-> K.DESCRIPTION_TEXTAREA_ID,
                               outer |-> K.DESCRIPTION_TEXTAREA_ID]

\* a block of field f with an empty control that carries the id: a combobox
\* display, a text input or a textarea
LocateBlock(f, label, id) ==
    CASE f = "vehicleType" -> Blk(label, <<Wr(id, "exact", TRUE)>>, Disp(<< >>), << >>, NoControl)
      [] f = "description" -> Blk(label, << >>, NoDisp, << >>,
                                  [Inp(id, << >>, "keep") EXCEPT !.text = FALSE])
      [] OTHER             -> Blk(label, << >>, NoDisp, <<Inp(id, << >>, "keep")>>, NoControl)

\* the pages explored: one field, shown by up to MaxContainers containers of its
\* label, each visible or hidden and its control with or without the field's id,
\* and after them at most one control with the id outside every container
LocateInit ==
    /\ FnIdle
    /\ \E f \in LocateFields :
       LET key == LocateKeys(f)
           containers == {LocateBlock(f, key.label, id) : id \in {"", key.inner}}
           loose == IF key.outer = "" THEN {}
                    ELSE {[LocateBlock(f, NoneV, key.outer) EXCEPT !.container = FALSE]}
       IN  \E cs \in SeqsUpTo(containers \cup {Hidden(b) : b \in containers}, MaxContainers),
              l \in Opt(loose) :
             probe = [fn |-> "patch_dom", g |-> InitialGlobals, page |-> cs \o l,
                      before |-> cs \o l, n |-> 0, result |-> NotReady, prev_ok |-> FALSE,
                      dom_stable_count |-> 1]

SpecLocate == LocateInit /\ [][Pass]_vars

(***************************************************************************)
(* enforce_labeled_text_input_commit, and the digit comparison of the pass *)
(***************************************************************************)
\* the mileage values of the records explored (build_listing_config strips the
\* value of the record): digits, digits with a unit, no digit at all
CommitTargets == { <<"1", "2">>, <<"1", "2", " ", "k", "m">>, <<"n", "/", "a">> }

\* what the function meets in one container of the label: whether the container
\* is visible, whether it holds an input[type="text"], whether a page call on
\* the input raises, and what the host does with the value typed
LabeledEnvs ==
    { [visible |-> v, input |-> FALSE, raised |-> FALSE, host |-> "keep"] : v \in BOOLEAN }
    \cup { [visible |-> v, input |-> TRUE, raised |-> TRUE, host |-> "keep"] : v \in BOOLEAN }
    \cup { [visible |-> v, input |-> TRUE, raised |-> FALSE, host |-> h] :
              v \in BOOLEAN, h \in {"keep", "revert", "format"} }

\* line 632: what input_value() returns once the value is typed and set
ReadBack(c, target_value) == Strip(Hosted(Inp("", << >>, c.host), target_value))

\* lines 590-645: the loop over the active containers and the final return
RECURSIVE LabeledLoop(_, _, _, _)
LabeledLoop(cs, target_value, digits_only, required) ==
    IF cs = << >> THEN ~required
    ELSE LET c == Head(cs)
             current == ReadBack(c, target_value)
             expected_digits == digitsOnly(target_value)
             accepted ==
                 IF digits_only
                 THEN expected_digits # << >> /\ digitsOnly(current) = expected_digits
                 ELSE Lower(Strip(CollapseSpaces(current)))
                         = Lower(Strip(CollapseSpaces(target_value)))
         IN  IF ~c.input THEN LabeledLoop(Tail(cs), target_value, digits_only, required)
             ELSE IF c.raised THEN LabeledLoop(Tail(cs), target_value, digits_only, TRUE)
             ELSE IF accepted THEN TRUE
             ELSE LabeledLoop(Tail(cs), target_value, digits_only, TRUE)

\* lines 576-645; cs are the containers that carry the label, in document order
enforce_labeled_text_input_commit(cs, target_value, digits_only) ==
    LET visible_containers == SelectSeq(cs, LAMBDA c : c.visible)
        active_containers  == IF visible_containers # << >> THEN visible_containers ELSE cs
    IN  IF cs = << >> THEN TRUE
        ELSE LabeledLoop(active_containers, target_value, digits_only, FALSE)

\* run_single_listing before the call of line 1690: the mileage of the record and
\* the containers of the mileage label
CommitInit ==
    /\ FnIdle
    /\ \E t \in CommitTargets, cs \in {<< >>} \cup SeqsUpTo(LabeledEnvs, MaxContainers) :
          probe = [fn |-> "enforce_labeled_text_input_commit", target |-> t, cs |-> cs,
                   done |-> FALSE, mileage_commit_ok |-> FALSE, patched |-> << >>]

\* line 1690, mileage_commit_ok = enforce_labeled_text_input_commit(page,
\* MILEAGE_LABEL, config.mileage, digits_only=True), and beside it the verdict of
\* the pass (lines 1302-1310) on an input of each container
CommitStep ==
    /\ probe.fn = "enforce_labeled_text_input_commit"
    /\ ~probe.done
    /\ probe' = [probe EXCEPT
                   !.done = TRUE,
                   !.mileage_commit_ok =
                       enforce_labeled_text_input_commit(probe.cs, probe.target, TRUE),
                   !.patched =
                       [k \in 1..Len(probe.cs) |->
                           setControlValue(Inp(K.MILEAGE_INPUT_ID, << >>, probe.cs[k].host),
                                           probe.target, "digits").ok]]
    /\ UNCHANGED <<mainVars, runVars, pair>>

SpecCommit == CommitInit /\ [][CommitStep]_vars

(***************************************************************************)
(* resolve_photo_path on its own                                           *)
(***************************************************************************)
\* the files that may lie in or below the project root
PhotoFiles ==
    { P_a_png, P_b_jpg, P_c_jpg, P_d_webp,
      <<"a",".","j","p","e","g">>, <<"a",".","h","e","i","c">>, <<"c",".","w","e","b","p">> }

\* the photo_path of the record or of the command line: absent, blank, a file
\* that may exist in the root or below it, a file that never exists
PhotoArgs == { << >>, <<" ">>, P_a_png, P_c_jpg, P_d_webp, P_gone }

PhotoInit ==
    /\ FnIdle
    /\ \E fs \in SUBSET PhotoFiles, a \in PhotoArgs :
          probe = [fn |-> "resolve_photo_path", fs |-> fs, photo_path_arg |-> a,
                   done |-> FALSE, photo_path |-> NoneV]

\* build_listing_config, line 1595: photo_path = resolve_photo_path(...)
ResolvePhoto ==
    /\ probe.fn = "resolve_photo_path"
    /\ ~probe.done
    /\ probe' = [probe EXCEPT !.done = TRUE,
                              !.photo_path = resolve_photo_path(probe.fs, probe.photo_path_arg)]
    /\ UNCHANGED <<mainVars, runVars, pair>>

SpecPhoto == PhotoInit /\ [][ResolvePhoto]_vars

(***************************************************************************)
(* normalize_cookies                                                       *)
(***************************************************************************)
MaxCookies == 2      \* longest cookie list explored

\* same_site_map, lines 716-721
same_site_map(key) ==
    CASE key = <<"l","a","x">> -> <<"L","a","x">>
      [] key = <<"s","t","r","i","c","t">> -> <<"S","t","r","i","c","t">>
      [] key = <<"n","o","_","r","e","s","t","r","i","c","t","i","o","n">> -> <<"N","o","n","e">>
      [] key = <<"n","o","n","e">> -> <<"N","o","n","e">>
      [] OTHER -> NoneV

\* the dictionaries load_raw_cookies may return.  name stands for the keys
\* "name", "value" and "domain", NoneV when one of them is missing; sameSite
\* and expirationDate are a missing key ("absent"), null, or a value; session
\* is a missing key or a boolean
RawCookies ==
    [name : {NoneV, <<"x","s">>, <<"f","r">>},
     sameSite : {[t |-> "absent", v |-> << >>], [t |-> "null", v |-> << >>]}
                   \cup {[t |-> "str", v |-> v] :
                            v \in { <<"L","a","x">>, <<"s","t","r","i","c","t">>,
                                    <<"n","o","_","r","e","s","t","r","i","c","t","i","o","n">>,
                                    <<"N","O","N","E">>,
                                    <<"u","n","s","p","e","c","i","f","i","e","d">> }},
     session : {"absent", "true", "false"},
     expirationDate : {[t |-> "absent", v |-> 0], [t |-> "null", v |-> 0],
                       [t |-> "num", v |-> 1700], [t |-> "str", v |-> 0]}]

\* the key is left out of the item
Omitted == [present |-> FALSE, v |-> << >>]

\* lines 724-739: the item made of one cookie
CookieItem(c) ==
    LET mapped == same_site_map(Lower(c.sameSite.v))
    IN  [name |-> c.name,
         sameSite |-> IF c.sameSite.t = "str" /\ mapped # NoneV
                      THEN [present |-> TRUE, v |-> mapped] ELSE Omitted,
         expires |-> IF c.session # "true" /\ c.expirationDate.t \notin {"absent", "null"}
                     THEN [present |-> TRUE, v |-> <<c.expirationDate.v>>] ELSE Omitted]

\* c["name"], c["value"], c["domain"] raise KeyError when the key is missing
\* (lines 725-727); float() raises on a string that is no number (line 739),
\* which is evaluated only for a cookie that is not session-scoped
CookieRaises(c) ==
    \/ c.name = NoneV
    \/ c.session # "true" /\ c.expirationDate.t = "str"

\* lines 715-742
normalize_cookies(raw_cookies) ==
    IF \E k \in 1..Len(raw_cookies) : CookieRaises(raw_cookies[k])
    THEN [raised |-> TRUE, cookies |-> << >>]
    ELSE [raised |-> FALSE,
          cookies |-> [k \in 1..Len(raw_cookies) |-> CookieItem(raw_cookies[k])]]

\* main, line 1751: raw_cookies is not empty
CookieInit ==
    /\ FnIdle
    /\ \E raw \in SeqsUpTo(RawCookies, MaxCookies) :
          probe = [fn |-> "normalize_cookies", raw_cookies |-> raw, done |-> FALSE,
                   out |-> [raised |-> FALSE, cookies |-> << >>]]

\* main, line 1752: context.add_cookies(normalize_cookies(raw_cookies))
Normalize ==
    /\ probe.fn = "normalize_cookies"
    /\ ~probe.done
    /\ probe' = [probe EXCEPT !.done = TRUE, !.out = normalize_cookies(probe.raw_cookies)]
    /\ UNCHANGED <<mainVars, runVars, pair>>

SpecCookies == CookieInit /\ [][Normalize]_vars

(***************************************************************************)
(* load_listings_data and the fallback of main                             *)
(***************************************************************************)
\* a JSON value of the data file: t is "none" (null, or the key is missing),
\* "other" (a string, a number, a boolean), "list" with its items, or "dict"
\* with the record v it holds
JV(t, items, v) == [t |-> t, items |-> items, v |-> v]

\* the data files explored: a missing file, a file that cannot be read or parsed,
\* and the payloads: a list, a dictionary with the keys "listings" and
\* "listing_data", anything else
DataFiles ==
    LET Items  == {JV("dict", << >>, L_empty), JV("dict", << >>, L_year), JV("other", << >>, << >>)}
        Lists  == UNION {[1..k -> Items] : k \in 0..MaxItems}
        Values == {JV("none", << >>, << >>), JV("other", << >>, << >>)}
                    \cup {JV("list", l, << >>) : l \in Lists}
                    \cup {JV("dict", << >>, d) : d \in {L_empty, L_year}}
        File(exists, readable, t, items, a, b) ==
            [exists |-> exists, readable |-> readable, t |-> t, items |-> items,
             listings |-> a, listing_data |-> b]
        None == JV("none", << >>, << >>)
    IN  {File(FALSE, FALSE, "none", << >>, None, None), File(TRUE, FALSE, "none", << >>, None, None),
         File(TRUE, TRUE, "other", << >>, None, None)}
          \cup {File(TRUE, TRUE, "list", l, None, None) : l \in Lists}
          \cup {File(TRUE, TRUE, "dict", << >>, x, y) : x \in Values, y \in Values}

\* [item for item in items if isinstance(item, dict)], lines 147, 154, 158
RECURSIVE DictItems(_)
DictItems(items) ==
    IF items = << >> THEN << >>
    ELSE (IF Head(items).t = "dict" THEN <<Head(items).v>> ELSE << >>) \o DictItems(Tail(items))

\* load_listings_data without the isinstance filter
load_listings_data_Unfiltered(data_file) ==
    LET All(items) == [k \in 1..Len(items) |-> items[k].v]
    IN  IF ~data_file.exists \/ ~data_file.readable THEN << >>
        ELSE IF data_file.t = "list" THEN All(data_file.items)
        ELSE IF data_file.t # "dict" THEN << >>
        ELSE IF data_file.listings.t = "list" THEN All(data_file.listings.items)
        ELSE IF data_file.listing_data.t = "list" THEN All(data_file.listing_data.items)
        ELSE IF data_file.listing_data.t = "dict" THEN <<data_file.listing_data.v>>
        ELSE << >>

\* lines 137-162
load_listings_data(data_file) ==
    IF ~data_file.exists THEN << >>
    ELSE IF ~data_file.readable THEN << >>
    ELSE IF data_file.t = "list" THEN DictItems(data_file.items)
    ELSE IF data_file.t # "dict" THEN << >>
    ELSE IF data_file.listings.t = "list" THEN DictItems(data_file.listings.items)
    ELSE IF data_file.listing_data.t = "list" THEN DictItems(data_file.listing_data.items)
    ELSE IF data_file.listing_data.t = "dict" THEN <<data_file.listing_data.v>>
    ELSE << >>

LoadInit ==
    /\ FnIdle
    /\ \E f \in DataFiles : probe = [fn |-> "load", data_file |-> f, loaded |-> FALSE]

\* main, lines 1734-1737: the records are loaded, and a single empty record
\* stands in for an empty result
Load ==
    /\ probe.fn = "load" /\ ~probe.loaded
    /\ LET loaded == load_listings_data(probe.data_file)
       IN  listings' = IF loaded = << >> THEN <<L_empty>> ELSE loaded
    /\ probe' = [probe EXCEPT !.loaded = TRUE]
    /\ UNCHANGED <<files, arg_photo_path, timeout_ticks, G, idx, mpc, config, failed_count,
                   exit_code, outcomes, runVars, pair>>

SpecLoad == LoadInit /\ [][Load]_vars


(***************************************************************************)
(* Properties                                                              *)
(***************************************************************************)
Returned  == mpc = "returned"
Succeeded == Returned /\ success
IterationStep == mpc = "run" /\ attempts' = attempts + 1

\* C1: run_single_listing reports SUCCEEDED only in a state where the
\* stability counter dom_stable_count is at least 2.
C1_SucceededOnlyWhenStable == Succeeded => dom_stable_count >= 2

\* C2: whenever run_single_listing reports SUCCEEDED, the pass of the final
\* iteration returned success, no error was raised in that iteration, and the
\* asset, select, model, mileage, save and navigation flags are all true.
C2_SucceededImpliesAllConfirmed ==
    Succeeded =>
        /\ last.pass = "ok" /\ last.exc = "none" /\ dom_success
        /\ photo_success /\ selects_ok /\ model_commit_ok /\ mileage_commit_ok
        /\ draft_clicked /\ leave_clicked

C2_Witness == Succeeded /\ attempts >= 2

\* C3: click_save_draft is called only in an iteration in which the stability
\* counter is at least 2, the asset is attached, and the three confirmations
\* were made in that same iteration and returned true.
C3_SaveOnlyWhenStableAndConfirmed ==
    "save" \in last.calls =>
        /\ dom_stable_count >= 2 /\ photo_success
        /\ {"selects", "model", "mileage"} \subseteq last.calls
        /\ last.exc = "none"
        /\ selects_ok /\ model_commit_ok /\ mileage_commit_ok

C3_Witness == "save" \in last.calls /\ ~draft_clicked /\ dom_stable_count >= 3

\* C4: the field values a record is run with depend only on that record and
\* the initial defaults: two runs whose lists differ only in earlier records
\* use identical values for the last record.
C4_LaterRecordIndependent ==
    LET n == Len(pair.A)
    IN  Len(pair.usedA) = n => pair.usedA[n] = pair.usedB[n]

\* C5: after an iteration in which an error was raised and caught, the
\* stability counter is zero.
C5_ErrorResetsCounter == last.exc # "none" => dom_stable_count = 0

\* C6: no error escapes run_single_listing: a record ends only as SUCCEEDED,
\* FAILED by deadline or FAILED by unresolved asset.
C6_NoErrorEscapes ==
    \A i \in DOMAIN outcomes :
        outcomes[i] \in {"pending", "succeeded", "failed_deadline", "failed_asset"}

\* C7: after every pass whose result patch_dom returned, the stability counter
\* is its previous value plus one if the pass succeeded and zero if it failed.
C7_CounterFollowsPass ==
    [][IterationStep =>
        /\ last'.pass = "ok" => dom_stable_count' = dom_stable_count + 1
        /\ last'.pass = "fail" => dom_stable_count' = 0]_vars

C7_Witness == last.pass = "ok" /\ dom_stable_count = 3 /\ mpc = "run"

\* C8: every record run terminates: once run_single_listing is called it
\* eventually returns SUCCEEDED or FAILED.
C8_RunReturns == (mpc = "call") ~> Returned

\* C9: a record is never reported SUCCEEDED at a moment later than its deadline.
C9_NeverSucceededAfterDeadline == Succeeded => now <= deadline

\* C9 (amended): success is established only by an iteration that began before
\* the deadline, and a run that returns without success returns at or after
\* the deadline and is reported FAILED by deadline.
C9_SucceededByIterationBegunInTime ==
    [][/\ (success' /\ ~success) => now < deadline
       /\ (mpc = "run" /\ mpc' = "returned" /\ ~success) =>
              now >= deadline /\ outcomes'[idx] = "failed_deadline"]_vars

C9_Witness == Succeeded /\ now > deadline

\* C10: every record of the list is processed whatever happened to earlier
\* records, and each record starts with attempt counter 0, stability counter 0
\* and all action and commit flags false.
C10_EveryRecordProcessedFresh ==
    /\ mpc \in {"exit", "crashed"} => \A i \in DOMAIN outcomes : outcomes[i] # "pending"
    /\ (mpc = "run" /\ attempts = 0) =>
          /\ dom_stable_count = 0
          /\ ~success /\ ~dom_success /\ ~photo_success /\ ~draft_clicked /\ ~leave_clicked
          /\ ~selects_ok /\ ~model_commit_ok /\ ~mileage_commit_ok

\* C11: main returns exit code 0 if and only if every record reached SUCCEEDED,
\* and a non-zero code if and only if at least one record failed; failed_count
\* is the number of records that failed by deadline or by unresolved asset.
C11_ExitCodeReflectsOutcomes ==
    mpc \in {"exit", "crashed"} =>
        LET failed == {i \in DOMAIN outcomes : outcomes[i] \in {"failed_deadline", "failed_asset"}}
        IN  /\ (mpc = "exit" /\ exit_code = 0) <=> (\A i \in DOMAIN outcomes : outcomes[i] = "succeeded")
            /\ (mpc = "exit" /\ exit_code # 0) <=> failed # {}
            /\ failed_count = Cardinality(failed)

\* the record main is about to build has no asset: neither its photo_path nor
\* --photo-path names a file and no image lies in the project root
NoAsset ==
    /\ mpc = "build"
    /\ idx <= Len(listings)
    /\ resolve_photo_path(files, _pick_listing_value(listings[idx], <<"photo_path">>, arg_photo_path)) = NoneV

\* C12: a record for which no asset can be resolved is counted as failed at
\* once: main goes on to the next record without calling run_single_listing,
\* nothing of the record run changes, and the globals written for earlier
\* records stay as they are.
C12_NoAssetFailsAtOnce ==
    [][NoAsset =>
          /\ failed_count' = failed_count + 1
          /\ outcomes'[idx] = "failed_asset"
          /\ idx' = idx + 1 /\ mpc' = "build"
          /\ G' = G /\ config' = config
          /\ UNCHANGED runVars]_vars

C12_Witness ==
    /\ Len(outcomes) = 2 /\ outcomes[1] = "succeeded" /\ outcomes[2] = "failed_asset"
    /\ G # InitialGlobals /\ attempts > 0

C14_AssetSubmittedAtMostOnce == last.submit # "again"

C16_StepsInOrder ==
    /\ "selects" \in last.calls => photo_success
    /\ "save" \in last.calls => photo_success /\ selects_ok
    /\ "leave" \in last.calls => photo_success /\ selects_ok /\ draft_clicked

\* C16 (amended): click_save_draft is called only when the asset is attached
\* and the select fields were confirmed in the same iteration, and
\* click_tinggalkan_halaman only when the save was triggered; the select
\* fields are confirmed whether or not the asset is attached.
C16_SaveAfterAttachAndSelectsLeaveAfterSave ==
    /\ "save" \in last.calls => photo_success /\ selects_ok /\ "selects" \in last.calls
    /\ "leave" \in last.calls => draft_clicked

C16_Witness ==
    /\ {"save", "leave"} \subseteq last.calls
    /\ last.submit = "first"

\* the latest call of select_combobox_option met a combobox and returned
SelectCalled ==
    /\ probe # ProbeIdle /\ probe.fn = "enforce_select_fields"
    /\ probe.i > 1 /\ probe.env.present /\ ~probe.out.raised

\* C17: for a combobox that is present, select_combobox_option reports
\* confirmed only if an option element was clicked and the value read back
\* afterwards equals or contains the option text; typing the text into the
\* input alone never yields confirmed.
C17_ConfirmedOnlyAfterClick ==
    (SelectCalled /\ probe.out.ok) =>
        /\ probe.out.clicked
        /\ \/ probe.out.final_value = probe.option_text
           \/ Contains(probe.out.final_value, probe.option_text)

\* C17 (amended): for a combobox that is present, select_combobox_option
\* reports confirmed only if an option element was clicked and the value read
\* back afterwards equals the option text or contains it when letter case is
\* ignored; typing the text into the input alone never yields confirmed, and
\* enforce_select_fields returns true only if every field was confirmed.
C17_ConfirmedOnlyAfterClickIgnoringCase ==
    /\ (SelectCalled /\ probe.out.ok) =>
          /\ probe.out.clicked
          /\ \/ probe.out.final_value = probe.option_text
             \/ Contains(Lower(probe.out.final_value), Lower(probe.option_text))
    /\ (SelectCalled /\ probe.out.typed /\ ~probe.out.clicked) => ~probe.out.ok /\ ~probe.ok
    /\ (SelectCalled /\ ~probe.out.ok) => ~probe.ok

C17_Witness ==
    /\ SelectCalled /\ probe.done /\ probe.ok
    /\ probe.out.typed /\ probe.out.clicked
    /\ probe.out.final_value # probe.option_text

\* C18: enforce_model_input_commit never accepts on a read-back that is purely
\* numeric, whatever the model value, neither by the first test nor by the
\* test after the retyping.
C18_NumericReadBackRejected ==
    (probe # ProbeIdle /\ probe.fn = "enforce_model_input_commit" /\ probe.done
     /\ probe.out.ok /\ probe.out.via \in {"first", "retype"}) =>
        ~isdigit(probe.out.current) /\ ~isdigit(probe.out.visible)

\* C19: a pass over the page that a successful pass left, the host having changed
\* nothing in between, succeeds again.
C19_SuccessfulPassRepeats ==
    (probe # ProbeIdle /\ probe.fn = "patch_dom" /\ probe.n >= 2 /\ probe.prev_ok)
        => probe.result.ok

\* the target value of the field that a label names
FieldTarget(g) ==
    { <<K.VEHICLE_TYPE_LABEL, g.TARGET_TEXT>>, <<K.YEAR_FIELD_LABEL, g.TARGET_YEAR_TEXT>>,
      <<K.BRAND_LABEL, g.TOYOTA_INPUT_VALUE>>, <<K.MODEL_LABEL, g.MODEL_INPUT_VALUE>>,
      <<K.PRICE_LABEL, g.PRICE_INPUT_VALUE>>, <<K.MILEAGE_LABEL, g.MILEAGE_INPUT_VALUE>>,
      <<K.DESCRIPTION_LABEL, g.DESCRIPTION_TEXT>>, <<K.LOCATION_LABEL, g.LOCATION_TEXT>> }

\* every control of block b0 that shows t shows it in block b1 as well: the same
\* display div, the same input, the same textarea
ControlsKept(b0, b1, t) ==
    /\ (HasSpan(b0) /\ Strip(b0.disp.span) = t) => (HasSpan(b1) /\ Strip(b1.disp.span) = t)
    /\ (b0.rec.present /\ b0.rec.value = t) => (b1.rec.present /\ b1.rec.value = t)
    /\ \A k \in 1..Len(b0.inputs) : b0.inputs[k].value = t => b1.inputs[k].value = t
    /\ (b0.textarea.present /\ b0.textarea.value = t) => b1.textarea.value = t

PassRan == probe # ProbeIdle /\ probe.fn = "patch_dom" /\ probe.n >= 1 /\ probe.result.pageReady

\* a container of the page carries the label as its first span
Labelled(page, label) == \E i \in 1..Len(page) : page[i].container /\ FirstSpanIs(page[i], label)

\* every field that the pass found required was verified by it; location has no
\* required flag in the script and counts as required where its label is shown
AllRequiredVerified(r, before) ==
    /\ r.makeRequired => r.makePatched
    /\ r.toyotaInputRequired => r.toyotaInputPatched
    /\ r.vehicleTypeRequired => r.vehicleTypePatched
    /\ r.yearFieldRequired => r.yearFieldPatched
    /\ r.modelRequired => r.modelPatched
    /\ r.priceRequired => r.pricePatched
    /\ r.mileageRequired => r.mileagePatched
    /\ r.descriptionRequired => r.descriptionPatched
    /\ Labelled(before, K.LOCATION_LABEL) => r.locationPatched

\* C21: a pass over a ready page reports success if and only if every field it
\* found required was verified in that pass.
C21_OkIffAllRequiredVerified ==
    PassRan => (probe.result.ok <=> AllRequiredVerified(probe.result, probe.before))

\* a container that carries a field's label and holds no control: no display div,
\* no input, no textarea
Uncontrolled(b) ==
    /\ b.container /\ ~b.disp.present /\ Inputs(b) = << >> /\ ~b.textarea.present
    /\ \E f \in FieldTarget(probe.g) : FirstSpanIs(b, f[1])

\* C22: a pass over a page on which the container of some field's label holds no
\* usable control fails.
C22_UncontrolledFieldFailsPass ==
    (PassRan /\ \E i \in 1..Len(probe.before) : Uncontrolled(probe.before[i]))
        => ~probe.result.ok

\* the fields whose label is shown by a container of the page, or whose control the
\* pass found by its id, and that the pass did not verify
ShownUnverified(r, before) ==
    { f \in {"vehicleType", "yearField", "brand", "model", "price", "mileage",
             "description", "location", "make"} :
        CASE f = "vehicleType" -> Labelled(before, K.VEHICLE_TYPE_LABEL) /\ ~r.vehicleTypePatched
          [] f = "yearField"   -> Labelled(before, K.YEAR_FIELD_LABEL) /\ ~r.yearFieldPatched
          [] f = "brand"       -> Labelled(before, K.BRAND_LABEL) /\ ~r.toyotaInputPatched
          [] f = "model"       -> Labelled(before, K.MODEL_LABEL) /\ ~r.modelPatched
          [] f = "price"       -> Labelled(before, K.PRICE_LABEL) /\ ~r.pricePatched
          [] f = "mileage"     -> Labelled(before, K.MILEAGE_LABEL) /\ ~r.mileagePatched
          [] f = "description" -> Labelled(before, K.DESCRIPTION_LABEL) /\ ~r.descriptionPatched
          [] f = "location"    -> Labelled(before, K.LOCATION_LABEL) /\ ~r.locationPatched
          [] f = "make"        -> r.makeRequired /\ ~r.makePatched }

\* C23: a pass over a ready page fails only where a field that the page shows is
\* not verified; a field whose label is nowhere on the page does not fail it.
C23_AbsentFieldNeverFailsPass ==
    (PassRan /\ ~probe.result.ok) => ShownUnverified(probe.result, probe.before) # {}

\* the labels of the expected fields
ExpectedLabels ==
    {K.VEHICLE_TYPE_LABEL, K.YEAR_FIELD_LABEL, K.BRAND_LABEL, K.MODEL_LABEL, K.PRICE_LABEL,
     K.MILEAGE_LABEL, K.DESCRIPTION_LABEL, K.LOCATION_LABEL}

\* C24: a pass treats the page as ready if and only if some span of the page
\* carries the label of an expected field.
C24_ReadyIffSomeLabelShown ==
    (probe # ProbeIdle /\ probe.fn = "patch_dom" /\ probe.n >= 1)
        => (probe.result.pageReady
              <=> \E i \in 1..Len(probe.before) :
                     \E label \in ExpectedLabels : AnySpanIs(probe.before[i], label))

\* C25: the select confirmation, the model commit and the mileage commit whose
\* results enter a success decision that reports SUCCEEDED were all made in the
\* iteration of that decision.
C25_ConfirmationsOfSameIteration ==
    Succeeded => {"selects", "model", "mileage"} \subseteq last.calls

\* the collection of records that the data file designates: the top-level list,
\* else the list under "listings", else what "listing_data" holds
Collection(f) ==
    IF ~f.exists \/ ~f.readable THEN << >>
    ELSE IF f.t = "list" THEN f.items
    ELSE IF f.t # "dict" THEN << >>
    ELSE IF f.listings.t = "list" THEN f.listings.items
    ELSE IF f.listing_data.t = "list" THEN f.listing_data.items
    ELSE IF f.listing_data.t = "dict" THEN <<f.listing_data>>
    ELSE << >>

\* the dictionaries among the items, in the order of the items
DictRecords(items) ==
    LET at == InOrder({k \in 1..Len(items) : items[k].t = "dict"})
    IN  [j \in 1..Len(at) |-> items[at[j]].v]

\* C26: the records main goes through are the dictionary records of the data
\* file in their order, and exactly one empty (default) record where the file
\* is missing, unreadable or holds no dictionary record.
C26_RecordsOfSourceOrOneDefault ==
    (probe # ProbeIdle /\ probe.fn = "load" /\ probe.loaded)
        => LET recs == DictRecords(Collection(probe.data_file))
           IN  listings = IF recs = << >> THEN <<L_empty>> ELSE recs

\* a list with a non-dictionary item between two different records was loaded
C26_Witness ==
    /\ probe # ProbeIdle /\ probe.fn = "load" /\ probe.loaded
    /\ probe.data_file.t = "list" /\ Len(probe.data_file.items) = 3
    /\ probe.data_file.items[2].t = "other"
    /\ listings = <<L_year, L_empty>>

\* C27: an iteration that begins with the save already triggered runs no pass
\* and makes no select confirmation and no text commit.
C27_NoWriteAfterSave ==
    [][(draft_clicked /\ IterationStep)
          => (last'.pass = "none" /\ last'.calls \cap {"selects", "model", "mileage"} = {})]_vars

\* C28: a record that run_single_listing reports as FAILED has not had the save
\* triggered.
C28_FailedMeansNotSaved == (Returned /\ ~success) => ~draft_clicked

\* C29: within one record no click on the save button is performed after an
\* earlier one.
C29_SaveClickedAtMostOnce == last.save # "again"

\* C30: within one record photo_success, draft_clicked and leave_clicked never
\* turn from true to false, whatever the iteration does, and an iteration that
\* calls none of upload_photo, click_save_draft and click_tinggalkan_halaman
\* leaves all three as they are.
C30_ActionFlagsMonotone ==
    [][mpc = "run" =>
         /\ photo_success => photo_success'
         /\ draft_clicked => draft_clicked'
         /\ leave_clicked => leave_clicked'
         /\ (IterationStep /\ last'.calls \cap {"upload", "save", "leave"} = {})
               => UNCHANGED <<photo_success, draft_clicked, leave_clicked>>]_vars

\* all three flags are set and the latest iteration raised
C30_Witness ==
    mpc = "run" /\ photo_success /\ draft_clicked /\ leave_clicked /\ last.exc # "none"

\* C31: a navigation step that met the prompt at every poll and at its final
\* probe without a click registering reports not satisfied; and an iteration
\* that begins with the save triggered and the navigation unconfirmed, and
\* raises nothing, attempts the navigation step again and does not call
\* click_save_draft.
C31_StuckPromptRetriedWithoutSave ==
    [][IterationStep =>
         /\ (last'.leave.called /\ last'.leave.stuck) => ~leave_clicked'
         /\ (draft_clicked /\ ~leave_clicked /\ last'.exc = "none")
               => ("leave" \in last'.calls /\ "save" \notin last'.calls)]_vars

\* C32: a pass over a page that shows no label of an expected field leaves the
\* page as it was, reports failure, and the stability counter is zero after it.
C32_NotReadyPassWritesNothing ==
    (/\ probe # ProbeIdle /\ probe.fn = "patch_dom" /\ probe.n >= 1
     /\ ~\E i \in 1..Len(probe.before) :
            \E label \in ExpectedLabels : AnySpanIs(probe.before[i], label))
        => /\ probe.page = probe.before
           /\ ~probe.result.ok /\ ~probe.result.pageReady
           /\ probe.dom_stable_count = 0

\* a pass ran over a page that holds the make input and no label
C32_Witness ==
    /\ probe # ProbeIdle /\ probe.fn = "patch_dom" /\ probe.n = 1
    /\ Len(probe.before) = 1 /\ probe.before[1].label = NoneV
    /\ Inputs(probe.before[1]) # << >>
    /\ ~probe.result.pageReady /\ probe.dom_stable_count = 0

\* every control of block b1 shows what it showed in b0, or the value t
OwnValueOnly(b0, b1, t) ==
    /\ b1.disp = b0.disp \/ (HasSpan(b1) /\ Strip(b1.disp.span) = t)
    /\ b1.rec = b0.rec \/ (b1.rec.present /\ b1.rec.value = t)
    /\ Len(b1.inputs) = Len(b0.inputs)
    /\ \A k \in 1..Len(b0.inputs) :
          b1.inputs[k].value = b0.inputs[k].value \/ b1.inputs[k].value = t
    /\ b1.textarea.value = b0.textarea.value \/ b1.textarea.value = t

\* C33: after a pass, every control in the container of a field shows what it
\* showed before the pass or the target value of that field: no section writes
\* another field's value into it or replaces it.
C33_OnlyOwnFieldWritten ==
    PassRan => \A i \in 1..Len(probe.before) :
                  \A f \in FieldTarget(probe.g) :
                     FirstSpanIs(probe.before[i], f[1])
                        => OwnValueOnly(probe.before[i], probe.page[i], f[2])

\* the target value of a field under the globals g
LocateTarget(f, g) ==
    CASE f = "vehicleType" -> g.TARGET_TEXT
      [] f = "brand"       -> g.TOYOTA_INPUT_VALUE
      [] f = "price"       -> g.PRICE_INPUT_VALUE
      [] f = "mileage"     -> g.MILEAGE_INPUT_VALUE
      [] f = "description" -> g.DESCRIPTION_TEXT

\* a control of block b shows the text t
Shows(b, t) ==
    \/ HasSpan(b) /\ b.disp.span = t
    \/ \E k \in 1..Len(Inputs(b)) : Inputs(b)[k].value = t
    \/ b.textarea.present /\ b.textarea.value = t

\* the first pass over the page has run
FirstPassRan == probe # ProbeIdle /\ probe.fn = "patch_dom" /\ probe.n = 1

\* C34: when the page holds a control with the id that the script asks the
\* document for and, apart from it, a container of the field's label with a
\* usable control, the pass writes the field's value into the control with the
\* id and leaves the container as it was.
C34_IdMatchBeforeLabelMatch ==
    FirstPassRan =>
        \A f \in LocateFields : \A i, j \in 1..Len(probe.before) :
           (/\ LocateKeys(f).outer # ""
            /\ ~probe.before[i].container
            /\ ElemIn(probe.before[i], i, LocateKeys(f).outer).kind # "none"
            /\ probe.before[j].container
            /\ FirstSpanIs(probe.before[j], LocateKeys(f).label))
              => /\ Shows(probe.page[i], LocateTarget(f, probe.g))
                 /\ probe.page[j] = probe.before[j]

\* C35: when a hidden and a visible container carry the label of a field, the
\* pass writes the field's value into the control of the visible container,
\* whichever of the two comes first in the document.
C35_VisibleContainerFirst ==
    FirstPassRan =>
        \A f \in LocateFields : \A i, j \in 1..Len(probe.before) :
           (/\ probe.before[i].container /\ probe.before[j].container
            /\ FirstSpanIs(probe.before[i], LocateKeys(f).label)
            /\ FirstSpanIs(probe.before[j], LocateKeys(f).label)
            /\ ~probe.before[i].visible /\ probe.before[j].visible)
              => Shows(probe.page[j], LocateTarget(f, probe.g))

\* the fields written through setControlValue: the label of the container, the
\* flag of the result, the comparison and the target value
InputCommits(g) ==
    { <<K.BRAND_LABEL, "toyotaInputPatched", "exact", g.TOYOTA_INPUT_VALUE>>,
      <<K.PRICE_LABEL, "pricePatched", "digits", g.PRICE_INPUT_VALUE>>,
      <<K.MILEAGE_LABEL, "mileagePatched", "digits", g.MILEAGE_INPUT_VALUE>>,
      <<K.DESCRIPTION_LABEL, "descriptionPatched", "exact", g.DESCRIPTION_TEXT>>,
      <<K.LOCATION_LABEL, "locationPatched", "exact", g.LOCATION_TEXT>> }

\* the block holds an input or a textarea, and what that control holds
Controlled(b) == Inputs(b) # << >> \/ b.textarea.present
ControlValue(b) == IF Inputs(b) # << >> THEN Inputs(b)[1].value ELSE b.textarea.value

\* C36: a field is reported committed by a pass only if the value read back
\* after the write and the notifications satisfies the field's comparison, and
\* whenever the host replaced the written value during the notifications, so
\* that the control no longer holds the target, the commit is reported failed.
C36_ReplacedValueFailsCommit ==
    FirstPassRan =>
        \A i \in 1..Len(probe.before) : \A c \in InputCommits(probe.g) :
           (FirstSpanIs(probe.before[i], c[1]) /\ Controlled(probe.before[i]))
              => /\ probe.result[c[2]] => Validated(c[3], ControlValue(probe.page[i]), c[4])
                 /\ ControlValue(probe.page[i]) # c[4] => ~probe.result[c[2]]

\* C36 (amended): a field written through setControlValue is reported committed
\* exactly when the value its control holds after the write and the
\* notifications satisfies the field's comparison with the target; a value the
\* host put in its place fails the commit when it does not satisfy the
\* comparison.  A display written through patchExistingWrapper is reported
\* committed with the target in its value span.
C36_CommittedIffReadBackMatches ==
    FirstPassRan =>
        /\ \A i \in 1..Len(probe.before) : \A c \in InputCommits(probe.g) :
              (FirstSpanIs(probe.before[i], c[1]) /\ Controlled(probe.before[i]))
                 => (probe.result[c[2]]
                        <=> Validated(c[3], ControlValue(probe.page[i]), c[4]))
        /\ \A i \in 1..Len(probe.before) : \A k \in 1..Len(probe.before[i].wrappers) :
              LET patched == patchExistingWrapper(probe.before, i, k,
                                                  probe.g.TARGET_TEXT, "")
              IN  patched.ok => patched.page[i].disp.span = probe.g.TARGET_TEXT

\* the host put the earlier value back in the price input and the pass reports
\* the price as not committed
C36_Witness ==
    /\ FirstPassRan /\ probe.result.priceRequired /\ ~probe.result.pricePatched
    /\ \E i \in 1..Len(probe.before) :
          /\ FirstSpanIs(probe.before[i], K.PRICE_LABEL) /\ Controlled(probe.before[i])
          /\ probe.before[i].inputs[1].host = "revert"
          /\ ControlValue(probe.page[i]) # probe.g.PRICE_INPUT_VALUE

\* C37: the mileage commit is accepted exactly when the digits of the value read
\* back are the digits of the target, whether the target holds a digit or not:
\* by enforce_labeled_text_input_commit on a page with one container of the
\* label whose input raises nothing, and by the pass on the same input.
C37_AcceptedIffSameDigits ==
    (/\ probe # ProbeIdle /\ probe.fn = "enforce_labeled_text_input_commit" /\ probe.done
     /\ Len(probe.cs) = 1 /\ probe.cs[1].input /\ ~probe.cs[1].raised)
        => LET same == digitsOnly(ReadBack(probe.cs[1], probe.target))
                          = digitsOnly(probe.target)
           IN  /\ probe.mileage_commit_ok <=> same
               /\ probe.patched[1] <=> same

\* the extensions in the order the claim gives
ClaimedExtensions ==
    << <<".","j","p","g">>, <<".","j","p","e","g">>, <<".","p","n","g">>,
       <<".","w","e","b","p">>, <<".","h","e","i","c">> >>

\* the files directly in the root that end in the k-th extension
RootFiles(fs, k) ==
    {p \in fs : EndsWith(p, ClaimedExtensions[k]) /\ \A i \in 1..Len(p) : p[i] # "/"}

\* C38: resolve_photo_path returns the explicit path when one is given and
\* exists; otherwise the first, in sorted order, of the root's files of the
\* first extension among jpg, jpeg, png, webp, heic that has a file; and none
\* only when the root holds no file of these extensions.
C38_ExplicitElseFirstByExtension ==
    (probe # ProbeIdle /\ probe.fn = "resolve_photo_path" /\ probe.done) =>
        LET fs == probe.fs
            a  == probe.photo_path_arg
            r  == probe.photo_path
        IN  IF Strip(a) # << >> /\ a \in fs THEN r = a
            ELSE IF \A k \in 1..5 : RootFiles(fs, k) = {} THEN r = NoneV
            ELSE \E k \in 1..5 :
                    /\ r \in RootFiles(fs, k)
                    /\ \A j \in 1..(k - 1) : RootFiles(fs, j) = {}
                    /\ \A q \in RootFiles(fs, k) : q = r \/ StrLess(r, q)

\* the record names a file that does not exist, the root holds two jpg files and
\* a png file, and the first jpg file in sorted order is returned
C38_Witness ==
    /\ probe # ProbeIdle /\ probe.fn = "resolve_photo_path" /\ probe.done
    /\ probe.photo_path_arg = P_gone
    /\ {P_a_png, P_b_jpg, P_c_jpg} \subseteq probe.fs
    /\ probe.photo_path = P_b_jpg

\* C39: normalize_cookies returns one cookie per input cookie, in input order;
\* the cookie carries Lax, Strict or None as its same-site value when the source
\* value is lax, strict, no_restriction or none in any case of letters, and no
\* same-site value otherwise; it carries an expiry exactly when the source
\* cookie is not session-scoped and has an expiration date.
C39_OneCookiePerInput ==
    (probe # ProbeIdle /\ probe.fn = "normalize_cookies" /\ probe.done) =>
        LET raw == probe.raw_cookies
            out == probe.out
        IN  /\ ~out.raised
            /\ Len(out.cookies) = Len(raw)
            /\ \A k \in 1..Len(raw) :
                  LET c == raw[k]
                      item == out.cookies[k]
                      source == IF c.sameSite.t = "str" THEN Lower(c.sameSite.v) ELSE NoneV
                  IN  /\ item.name = c.name
                      /\ source = <<"l","a","x">> => item.sameSite.v = <<"L","a","x">>
                      /\ source = <<"s","t","r","i","c","t">>
                            => item.sameSite.v = <<"S","t","r","i","c","t">>
                      /\ source \in { <<"n","o","_","r","e","s","t","r","i","c","t","i","o","n">>,
                                      <<"n","o","n","e">> }
                            => item.sameSite.v = <<"N","o","n","e">>
                      /\ item.sameSite.present
                            <=> source \in { <<"l","a","x">>, <<"s","t","r","i","c","t">>,
                                             <<"n","o","_","r","e","s","t","r","i","c","t","i","o","n">>,
                                             <<"n","o","n","e">> }
                      /\ item.expires.present
                            <=> (c.session # "true"
                                 /\ c.expirationDate.t \notin {"absent", "null"})

====
